---- MODULE Spec2Model ----
(***************************************************************************)
(* The change-event pipeline of tomerk122/SRE.                             *)
(*                                                                         *)
(*   - the API process (src/unnamed/part_000): the write handlers          *)
(*     register, login and logout, each followed by logDatabaseChange,     *)
(*     which sends one ChangeRecord to the topic 'database-changes';       *)
(*   - the worker process (src/consumer/consumer.js): runConsumer          *)
(*     (connect, subscribe, run), the eachMessage handler, processChange,  *)
(*     the health server and gracefulShutdown.                             *)
(*                                                                         *)
(* Both processes are single-threaded Node.js programs: a callback runs to *)
(* completion, and other callbacks (signal handlers, promise               *)
(* continuations after I/O, HTTP requests) run only between callbacks.     *)
(* The broker and the database are the environment: each call to them is   *)
(* answered (resolved or rejected) by a separate action, or never.         *)
(***************************************************************************)
EXTENDS Integers, Sequences, FiniteSets, TLC

(***************************************************************************)
(* Bounds of the model.                                                    *)
(***************************************************************************)
\* records the broker accepts on the topic in one run of the worker model
MaxRecords == 2
\* partitions of the topic
NumPartitions == 2
\* clock readings are 0..MaxTime
MaxTime == 1
\* termination signals delivered to the worker
MaxSignals == 1
\* SIGINTs delivered to the API
MaxApiSignals == 1
\* HTTP requests the API receives in one run of the API model
MaxReqs == 2
\* HTTP requests the API receives in one run of the session model
MaxAuthReqs == 2

\* records of the long stream that is fed to a running consumer
MaxStream == 21
\* lines the sink refuses in the long stream
MaxSinkFailures == 1
\* records of the long stream the broker holds ahead of the consumer
MaxBacklog == 1
\* times the broker hands out again a message that was already handled
MaxRedeliveries == 1

Partitions == 1..NumPartitions
Reqs == 1..MaxReqs
AuthReqs == 1..MaxAuthReqs
\* the request slots of the model
Slots == Reqs \cup AuthReqs
Times == 0..MaxTime

\* kafkajs runs eachMessage for one partition at a time unless consumer.run
\* is given partitionsConsumedConcurrently; the call passes eachMessage only.
PartitionsConsumedConcurrently == 1

\* the statistics snapshot is taken when processedCount % 10 === 0
StatsEvery == 10

(***************************************************************************)
(* JavaScript values.  A missing property reads as undefined; a timestamp  *)
(* that is undefined gives an Invalid Date, and arithmetic on it gives NaN.*)
(* Both are written as the integer below zero, which no clock reading and  *)
(* no difference clamped by Math.max(0, .) can be.  userId null is 0       *)
(* (AUTO_INCREMENT ids start at 1).                                        *)
(***************************************************************************)
Undefined == 0 - 1
NaN == 0 - 1

Max(a, b) == IF a >= b THEN a ELSE b

(***************************************************************************)
(* logDatabaseChange builds changeLog and sends JSON.stringify(changeLog). *)
(* The text is modelled by its tokens: an object is the tuple               *)
(* <<"{", timestamp, operation, table, data, userId, "}">>.                *)
(***************************************************************************)
ChangeLog(ts, operation, table, data, userId) ==
    [timestamp |-> ts, operation |-> operation, table |-> table,
     data |-> data, userId |-> userId]

Stringify(changeLog) ==
    <<"{", changeLog.timestamp, changeLog.operation, changeLog.table,
      changeLog.data, changeLog.userId, "}">>

\* payloads that are not a ChangeRecord: bytes that are no JSON text, and
\* the JSON text null
NotJson == <<"not-json">>
JsonNull == <<"null">>

IsJsonObject(value) == Len(value) = 7 /\ value[1] = "{" /\ value[7] = "}"

\* JSON.parse(message.value.toString()): throws on text that is no JSON
JsonParses(value) == IsJsonObject(value) \/ value = JsonNull

\* the parsed object (for an object payload)
JsonParse(value) ==
    [timestamp |-> value[2], operation |-> value[3], table |-> value[4],
     data |-> value[5], userId |-> value[6]]

\* Math.max(0, now - new Date(originalTimestamp)); Math.max(0, NaN) is NaN
calculateLatency_NoClamp(now, originalTimestamp) ==
    IF originalTimestamp = Undefined THEN NaN
    ELSE now - originalTimestamp

calculateLatency(now, originalTimestamp) ==
    IF originalTimestamp = Undefined THEN NaN
    ELSE Max(0, now - originalTimestamp)

\* the processedChange object of processChange
ProcessedChange_Swapped(now, changeData) ==
    [timestamp |-> now,
     originalTimestamp |-> now,
     operation |-> changeData.table,
     table |-> changeData.operation,
     data |-> changeData.data,
     userId |-> changeData.userId,
     processedBy |-> "kafka-consumer",
     processingLatency |-> calculateLatency(now, changeData.timestamp)]

ProcessedChange(now, changeData) ==
    [timestamp |-> now,
     originalTimestamp |-> changeData.timestamp,
     operation |-> changeData.operation,
     table |-> changeData.table,
     data |-> changeData.data,
     userId |-> changeData.userId,
     processedBy |-> "kafka-consumer",
     processingLatency |-> calculateLatency(now, changeData.timestamp)]

\* One tick of the model's clock is half a second, so that elapsed times
\* that Math.round moves to another whole second can occur.  The processor
\* is constructed at tick 0.
TickMs == 500
StartTime == 0

\* a division by 0 gives Infinity (JSON.stringify writes it as null)
Infinity == 0 - 2

\* Math.round(n / d) for n >= 0 and d > 0
Round(n, d) == (2 * n + d) \div (2 * d)

\* new Date() - this.startTime, in milliseconds
ElapsedMs(now) == now * TickMs - StartTime

\* uptime: Math.round((new Date() - this.startTime) / 1000)
Uptime(now) == Round(ElapsedMs(now), 1000)

\* averageProcessingRate, in hundredths:
\* Math.round(processedCount / ((new Date() - this.startTime) / 1000 / 60) * 100) / 100
AverageProcessingRate_FromUptime(now, count) ==
    IF Uptime(now) = 0 THEN Infinity
    ELSE Round(count * 60 * 100, Uptime(now))

AverageProcessingRate(now, count) ==
    IF ElapsedMs(now) = 0 THEN Infinity
    ELSE Round(count * 1000 * 60 * 100, ElapsedMs(now))

\* the stats object of processChange
Stats(now, count) ==
    [timestamp |-> now,
     totalProcessed |-> count,
     uptime |-> Uptime(now),
     averageProcessingRate |-> AverageProcessingRate(now, count)]

\* what the try block of processChange does with a payload: "parse" when
\* JSON.parse throws, "type" when the parsed value is null and the property
\* read throws, "sink" when databaseLogger.info throws, "ok" otherwise
ProcessResult(value, sinkOk) ==
    IF ~JsonParses(value) THEN "parse"
    ELSE IF value = JsonNull THEN "type"
    ELSE IF ~sinkOk THEN "sink"
    ELSE "ok"


(***************************************************************************)
(* State.                                                                  *)
(***************************************************************************)
VARIABLES
    \* ---- the broker ----
    topic,          \* topic 'database-changes': partition -> sequence of payloads
    redeliveries,   \* how often the group resumed from an offset behind the consumer
    \* ---- the worker process (consumer.js) ----
    consState,      \* lifecycle of the kafkajs consumer
    cpc,            \* where runConsumer stands
    task,           \* what the event loop is running: "main" (the module), "tick" (the
                    \* process.nextTick queue after it), "eachMessage", or "none"
    inflight,       \* messages handed to eachMessage whose handler has not returned
    position,       \* partition -> offset of the last message whose handler returned
    joinOffset,     \* partition -> offset the group started from (Undefined before run)
    processedCount, \* DatabaseChangeProcessor.processedCount
    sink,           \* lines written by databaseLogger.info, each with the message it is for
    statsLog,       \* statistics snapshots written by logger.info
    errorLog,       \* messages for which processChange logged an error, with the cause
    listening,      \* the health server is listening on 3003
    serverClosed,   \* server.close() was called
    lastHealth,     \* status of the last answer of the health server (0: none yet)
    lastUrl,        \* path of the request it answered ("": none yet)
    lastBody,       \* body of that answer, without its timestamp
    exited,         \* process.exit was called
    exitCode,       \* its argument
    exitVia,        \* the code path that called it
    sigPending,     \* SIGINT/SIGTERM delivered to the process, handler not yet run
    sigCount,       \* signals delivered so far
    sigDuring,      \* messages that were in processChange when a signal arrived
    shutdownCalls,  \* calls of gracefulShutdown (each awaits its consumer.disconnect())
    startupError,   \* the setup call of runConsumer that rejected
    calls,          \* how often runConsumer called connect, subscribe and run
    \* ---- the API process (part_000) and its database ----
    users,          \* table users: row i has id i
    activity,       \* table user_activity
    issued,         \* the tokens jwt.sign has produced
    req,            \* the requests: where each handler stands and what it answered
    apiPc,          \* where startServer stands
    dbPool,         \* db: "none" (unset), "connected" (pool, tables not ensured),
                    \* "ready" (tables exist), "closed" (db.end() done)
    producer,       \* the kafkajs producer: "idle", "connecting", "connected", "failed",
                    \* "disconnecting", "disconnected"
    producerCalls,  \* calls of producer.connect and producer.disconnect
    apiShutdown,    \* where the SIGINT handler stands
    apiSigPending,  \* SIGINTs delivered, handler not yet run
    apiSigCount,    \* SIGINTs delivered so far
    apiExited,      \* the API process has ended
    apiExitCode,    \* its exit code
    apiExitVia      \* the code path that ended it

brokerVars == <<topic, redeliveries>>
lifeVars == <<consState, cpc, joinOffset, startupError, calls>>
procVars == <<processedCount, sink, statsLog, errorLog>>
loopVars == <<task, inflight, position>>
healthVars == <<listening, serverClosed, lastHealth, lastUrl, lastBody>>
exitVars == <<exited, exitCode, exitVia>>
sigVars == <<sigPending, sigCount, sigDuring, shutdownCalls>>
consumerVars == <<lifeVars, procVars, loopVars, healthVars, exitVars, sigVars>>
dbVars == <<users, activity>>
apiLifeVars == <<apiPc, dbPool, producer, producerCalls, apiShutdown, apiSigPending,
                 apiSigCount, apiExited, apiExitCode, apiExitVia>>
apiVars == <<dbVars, issued, req, apiLifeVars>>

\* payloads of ChangeRecords as logDatabaseChange sends them (register's
\* record), stamped by the API's clock
SampleChangeLogs ==
    {ChangeLog(1, "INSERT", "users",
               <<<<"id", "2">>, <<"username", "bob">>, <<"email", "bob@x">>>>, 0)}

\* what producers put on the topic: ChangeRecords, and bytes that are no JSON
WireValues == {Stringify(c) : c \in SampleChangeLogs} \cup {NotJson}

\* ChangeRecords stamped before and after the worker's clock readings
\* (logout's record and register's record)
ProcessorChangeLogs ==
    SampleChangeLogs
        \cup {ChangeLog(0, "UPDATE", "users", <<<<"id", "1">>, <<"token", "null">>>>, 1)}

\* a JSON object that has no timestamp property (another producer's record)
NoTimestamp == <<"{", Undefined, "DELETE", "users", <<>>, 0, "}">>

\* everything a producer can put on the topic
ProcessorValues ==
    {Stringify(c) : c \in ProcessorChangeLogs} \cup {NotJson, JsonNull, NoTimestamp}

\* a ChangeRecord: what logDatabaseChange sends (an object with its timestamp)
IsChangeRecord(value) == IsJsonObject(value) /\ value[2] # Undefined

TotalRecords == LET RECURSIVE Sum(_)
                    Sum(P) == IF P = {} THEN 0
                              ELSE LET p == CHOOSE q \in P : TRUE
                                   IN Len(topic[p]) + Sum(P \ {p})
                IN Sum(Partitions)

InitConsumer ==
    /\ consState = "DISCONNECTED"
    /\ cpc = "start"
    /\ task = "main"
    /\ inflight = {}
    /\ position = [p \in Partitions |-> 0]
    /\ joinOffset = [p \in Partitions |-> Undefined]
    /\ processedCount = 0
    /\ sink = <<>>
    /\ statsLog = <<>>
    /\ errorLog = {}
    /\ listening = FALSE
    /\ serverClosed = FALSE
    /\ lastHealth = 0
    /\ lastUrl = ""
    /\ lastBody = [status |-> "", service |-> ""]
    /\ exited = FALSE
    /\ exitCode = 0
    /\ exitVia = "none"
    /\ sigPending = 0
    /\ sigCount = 0
    /\ sigDuring = {}
    /\ shutdownCalls = 0
    /\ startupError = "none"
    /\ calls = [connect |-> 0, subscribe |-> 0, run |-> 0]

(***************************************************************************)
(* The worker process.                                                     *)
(***************************************************************************)
Alive == ~exited

\* a callback registered with the event loop (a signal handler, the
\* continuation of an await, an HTTP request) runs only when no other
\* callback is running
HandlerMayRun_Preempt == TRUE

HandlerMayRun == task = "none"

\* process.exit(code)
Exit(code, via) ==
    /\ exited' = TRUE
    /\ exitCode' = code
    /\ exitVia' = via

\* runConsumer up to its first await: the processor is constructed and
\* consumer.connect() is called
runConsumer ==
    /\ Alive /\ task = "main" /\ cpc = "start"
    /\ cpc' = "awaitConnect"
    /\ consState' = "CONNECTING"
    /\ calls' = [calls EXCEPT !.connect = @ + 1]
    /\ processedCount' = 0
    /\ task' = "tick"
    /\ UNCHANGED <<brokerVars, apiVars, joinOffset, startupError, sink, statsLog, errorLog,
                   inflight, position, healthVars, exitVars, sigVars>>

\* the catch block of runConsumer: log, process.exit(1)
StartupCatch_Swallow(step) ==
    /\ startupError' = step
    /\ cpc' = "failed"
    /\ UNCHANGED exitVars

StartupCatch(step) ==
    /\ startupError' = step
    /\ cpc' = "failed"
    /\ Exit(1, "startup")

\* consumer.connect() resolved: consumer.subscribe is called
ConnectResolved ==
    /\ Alive /\ HandlerMayRun /\ cpc = "awaitConnect"
    /\ cpc' = "awaitSubscribe"
    /\ calls' = [calls EXCEPT !.subscribe = @ + 1]
    /\ UNCHANGED <<brokerVars, apiVars, consState, joinOffset, startupError, procVars, loopVars,
                   healthVars, exitVars, sigVars>>

ConnectRejected ==
    /\ Alive /\ HandlerMayRun /\ cpc = "awaitConnect"
    /\ StartupCatch("connect")
    /\ UNCHANGED <<brokerVars, apiVars, consState, joinOffset, calls, procVars, loopVars,
                   healthVars, sigVars>>

\* consumer.subscribe() resolved: consumer.run is called
SubscribeResolved ==
    /\ Alive /\ HandlerMayRun /\ cpc = "awaitSubscribe"
    /\ cpc' = "awaitRun"
    /\ consState' = IF consState = "CONNECTING" THEN "SUBSCRIBED" ELSE consState
    /\ calls' = [calls EXCEPT !.run = @ + 1]
    /\ UNCHANGED <<brokerVars, apiVars, joinOffset, startupError, procVars, loopVars,
                   healthVars, exitVars, sigVars>>

SubscribeRejected ==
    /\ Alive /\ HandlerMayRun /\ cpc = "awaitSubscribe"
    /\ StartupCatch("subscribe")
    /\ UNCHANGED <<brokerVars, apiVars, consState, joinOffset, calls, procVars, loopVars,
                   healthVars, sigVars>>

\* consumer.run() resolved: the group is joined.  subscribe was called
\* without fromBeginning, so a group without committed offsets starts at
\* the end of each partition.
RunResolved ==
    /\ Alive /\ HandlerMayRun /\ cpc = "awaitRun"
    /\ cpc' = "waiting"
    /\ IF consState = "SUBSCRIBED"
       THEN /\ consState' = "RUNNING"
            /\ position' = [p \in Partitions |-> Len(topic[p])]
            /\ joinOffset' = [p \in Partitions |-> Len(topic[p])]
       ELSE UNCHANGED <<consState, position, joinOffset>>
    /\ UNCHANGED <<brokerVars, apiVars, startupError, calls, procVars, task, inflight,
                   healthVars, exitVars, sigVars>>

RunRejected ==
    /\ Alive /\ HandlerMayRun /\ cpc = "awaitRun"
    /\ StartupCatch("run")
    /\ UNCHANGED <<brokerVars, apiVars, consState, joinOffset, calls, procVars, loopVars,
                   healthVars, sigVars>>

\* the offset kafkajs hands to eachMessage next: the one after the last
\* message whose handler returned
NextOffset_Latest(p) == Len(topic[p])

NextOffset(p) == position[p] + 1

\* the runner awaits the promise of eachMessage before it takes the next
\* message of the batch
CanDeliver_AnyState(p) ==
    /\ position[p] < Len(topic[p])
    /\ inflight = {}

CanDeliver(p) ==
    /\ consState = "RUNNING"
    /\ position[p] < Len(topic[p])
    /\ \A m \in inflight : m[1] # p
    /\ Cardinality(inflight) < PartitionsConsumedConcurrently

\* eachMessage is called with the next message of partition p: it logs
\* 'Received message' and calls processor.processChange(message)
eachMessage(p) ==
    /\ Alive /\ HandlerMayRun /\ CanDeliver(p)
    /\ inflight' = inflight \cup {<<p, NextOffset(p)>>}
    /\ task' = "eachMessage"
    /\ UNCHANGED <<brokerVars, apiVars, lifeVars, procVars, position, healthVars, exitVars,
                   sigVars>>

MessageValue(m) == topic[m[1]][m[2]]

\* processChange(message), then the return of eachMessage to the runner
processChange_NoEmit(m, now, sinkOk) ==
    /\ Alive /\ task = "eachMessage" /\ m \in inflight
    /\ LET result == ProcessResult(MessageValue(m), sinkOk) IN
       IF result = "ok"
       THEN /\ processedCount' = processedCount + 1
            /\ UNCHANGED <<sink, statsLog, errorLog>>
       ELSE /\ errorLog' = errorLog \cup {[src |-> m, reason |-> result]}
            /\ UNCHANGED <<sink, processedCount, statsLog>>
    /\ inflight' = inflight \ {m}
    /\ position' = [position EXCEPT ![m[1]] = m[2]]
    /\ task' = "none"
    /\ UNCHANGED <<brokerVars, apiVars, lifeVars, healthVars, exitVars, sigVars>>

processChange_NoCatch(m, now, sinkOk) ==
    /\ Alive /\ task = "eachMessage" /\ m \in inflight
    /\ LET result == ProcessResult(MessageValue(m), sinkOk) IN
       IF result = "ok"
       THEN /\ sink' = Append(sink, [src |-> m,
                                     rec |-> ProcessedChange(now, JsonParse(MessageValue(m)))])
            /\ processedCount' = processedCount + 1
            /\ position' = [position EXCEPT ![m[1]] = m[2]]
            /\ UNCHANGED <<errorLog, statsLog, lifeVars>>
       ELSE /\ consState' = "DISCONNECTED"
            /\ UNCHANGED <<sink, processedCount, statsLog, errorLog, position,
                           cpc, joinOffset, startupError, calls>>
    /\ inflight' = inflight \ {m}
    /\ task' = "none"
    /\ UNCHANGED <<brokerVars, apiVars, healthVars, exitVars, sigVars>>

processChange_SinkRetry(m, now, sinkOk) ==
    /\ Alive /\ task = "eachMessage" /\ m \in inflight
    /\ LET result == ProcessResult(MessageValue(m), sinkOk) IN
       IF result = "ok"
       THEN /\ sink' = Append(sink, [src |-> m,
                                     rec |-> ProcessedChange(now, JsonParse(MessageValue(m)))])
            /\ processedCount' = processedCount + 1
            /\ position' = [position EXCEPT ![m[1]] = m[2]]
            /\ UNCHANGED <<errorLog, statsLog>>
       ELSE IF result = "sink"
       THEN UNCHANGED <<sink, processedCount, statsLog, errorLog, position>>
       ELSE /\ errorLog' = errorLog \cup {[src |-> m, reason |-> result]}
            /\ position' = [position EXCEPT ![m[1]] = m[2]]
            /\ UNCHANGED <<sink, processedCount, statsLog>>
    /\ inflight' = inflight \ {m}
    /\ task' = "none"
    /\ UNCHANGED <<brokerVars, apiVars, lifeVars, healthVars, exitVars, sigVars>>

processChange_Dedup(m, now, sinkOk) ==
    /\ Alive /\ task = "eachMessage" /\ m \in inflight
    /\ LET result == ProcessResult(MessageValue(m), sinkOk) IN
       IF result = "ok" /\ (\E i \in 1..Len(sink) : sink[i].src = m)
       THEN UNCHANGED <<sink, processedCount, statsLog, errorLog>>
       ELSE IF result = "ok"
       THEN /\ sink' = Append(sink, [src |-> m,
                                     rec |-> ProcessedChange(now, JsonParse(MessageValue(m)))])
            /\ processedCount' = processedCount + 1
            /\ UNCHANGED <<errorLog, statsLog>>
       ELSE /\ errorLog' = errorLog \cup {[src |-> m, reason |-> result]}
            /\ UNCHANGED <<sink, processedCount, statsLog>>
    /\ inflight' = inflight \ {m}
    /\ position' = [position EXCEPT ![m[1]] = m[2]]
    /\ task' = "none"
    /\ UNCHANGED <<brokerVars, apiVars, lifeVars, healthVars, exitVars, sigVars>>

processChange_ResetOnError(m, now, sinkOk) ==
    /\ Alive /\ task = "eachMessage" /\ m \in inflight
    /\ LET result == ProcessResult(MessageValue(m), sinkOk) IN
       IF result = "ok"
       THEN /\ sink' = Append(sink, [src |-> m,
                                     rec |-> ProcessedChange(now, JsonParse(MessageValue(m)))])
            /\ processedCount' = processedCount + 1
            /\ UNCHANGED <<errorLog, statsLog>>
       ELSE /\ errorLog' = errorLog \cup {[src |-> m, reason |-> result]}
            /\ processedCount' = 0
            /\ UNCHANGED <<sink, statsLog>>
    /\ inflight' = inflight \ {m}
    /\ position' = [position EXCEPT ![m[1]] = m[2]]
    /\ task' = "none"
    /\ UNCHANGED <<brokerVars, apiVars, lifeVars, healthVars, exitVars, sigVars>>

processChange_StatsBeforeCount(m, now, sinkOk) ==
    /\ Alive /\ task = "eachMessage" /\ m \in inflight
    /\ LET result == ProcessResult(MessageValue(m), sinkOk) IN
       IF result = "ok"
       THEN /\ sink' = Append(sink, [src |-> m,
                                     rec |-> ProcessedChange(now, JsonParse(MessageValue(m)))])
            /\ processedCount' = processedCount + 1
            /\ statsLog' = IF processedCount % StatsEvery = 0
                           THEN Append(statsLog, Stats(now, processedCount))
                           ELSE statsLog
            /\ UNCHANGED errorLog
       ELSE /\ errorLog' = errorLog \cup {[src |-> m, reason |-> result]}
            /\ UNCHANGED <<sink, processedCount, statsLog>>
    /\ inflight' = inflight \ {m}
    /\ position' = [position EXCEPT ![m[1]] = m[2]]
    /\ task' = "none"
    /\ UNCHANGED <<brokerVars, apiVars, lifeVars, healthVars, exitVars, sigVars>>

processChange_CountBeforeEmit(m, now, sinkOk) ==
    /\ Alive /\ task = "eachMessage" /\ m \in inflight
    /\ LET result == ProcessResult(MessageValue(m), sinkOk) IN
       IF result = "ok"
       THEN /\ sink' = Append(sink, [src |-> m,
                                     rec |-> ProcessedChange(now, JsonParse(MessageValue(m)))])
            /\ processedCount' = processedCount + 1
            /\ statsLog' = IF (processedCount + 1) % StatsEvery = 0
                           THEN Append(statsLog, Stats(now, processedCount + 1))
                           ELSE statsLog
            /\ UNCHANGED errorLog
       ELSE /\ errorLog' = errorLog \cup {[src |-> m, reason |-> result]}
            /\ processedCount' = IF result = "sink" THEN processedCount + 1
                                 ELSE processedCount
            /\ UNCHANGED <<sink, statsLog>>
    /\ inflight' = inflight \ {m}
    /\ position' = [position EXCEPT ![m[1]] = m[2]]
    /\ task' = "none"
    /\ UNCHANGED <<brokerVars, apiVars, lifeVars, healthVars, exitVars, sigVars>>

processChange(m, now, sinkOk) ==
    /\ Alive /\ task = "eachMessage" /\ m \in inflight
    /\ LET result == ProcessResult(MessageValue(m), sinkOk) IN
       IF result = "ok"
       THEN /\ sink' = Append(sink, [src |-> m,
                                     rec |-> ProcessedChange(now, JsonParse(MessageValue(m)))])
            /\ processedCount' = processedCount + 1
            /\ statsLog' = IF (processedCount + 1) % StatsEvery = 0
                           THEN Append(statsLog, Stats(now, processedCount + 1))
                           ELSE statsLog
            /\ UNCHANGED errorLog
       ELSE /\ errorLog' = errorLog \cup {[src |-> m, reason |-> result]}
            /\ UNCHANGED <<sink, processedCount, statsLog>>
    /\ inflight' = inflight \ {m}
    /\ position' = [position EXCEPT ![m[1]] = m[2]]
    /\ task' = "none"
    /\ UNCHANGED <<brokerVars, apiVars, lifeVars, healthVars, exitVars, sigVars>>

\* SIGINT or SIGTERM is delivered to the process (at any moment)
Signal ==
    /\ Alive /\ sigCount < MaxSignals
    /\ sigPending' = sigPending + 1
    /\ sigCount' = sigCount + 1
    /\ sigDuring' = sigDuring \cup inflight
    /\ UNCHANGED <<brokerVars, apiVars, lifeVars, procVars, loopVars, healthVars, exitVars,
                   shutdownCalls>>

\* gracefulShutdown up to its await: consumer.disconnect() is called
gracefulShutdown ==
    /\ Alive /\ HandlerMayRun /\ sigPending > 0
    /\ sigPending' = sigPending - 1
    /\ shutdownCalls' = shutdownCalls + 1
    /\ consState' = "DISCONNECTING"
    /\ UNCHANGED <<brokerVars, apiVars, cpc, joinOffset, startupError, calls, procVars, loopVars,
                   healthVars, exitVars, sigCount, sigDuring>>

\* consumer.disconnect() resolved: server.close(), process.exit(0)
DisconnectResolved ==
    /\ Alive /\ HandlerMayRun /\ shutdownCalls > 0
    /\ consState' = "DISCONNECTED"
    /\ serverClosed' = TRUE
    /\ Exit(0, "shutdown")
    /\ UNCHANGED <<brokerVars, apiVars, cpc, joinOffset, startupError, calls, procVars, loopVars,
                   listening, lastHealth, lastUrl, lastBody, sigVars>>

\* consumer.disconnect() rejected: the catch block logs and calls process.exit(1)
DisconnectRejected ==
    /\ Alive /\ HandlerMayRun /\ shutdownCalls > 0
    /\ Exit(1, "shutdown")
    /\ UNCHANGED <<brokerVars, apiVars, lifeVars, procVars, loopVars, healthVars, sigVars>>

\* server.listen(3003) binds the port when it is called and emits
\* 'listening' from the nextTick queue, which runs right after the module
\* and before any I/O callback or signal handler
ServerListening ==
    /\ Alive /\ task = "tick" /\ ~listening
    /\ listening' = TRUE
    /\ task' = "none"
    /\ UNCHANGED <<brokerVars, apiVars, lifeVars, procVars, inflight, position, serverClosed,
                   lastHealth, lastUrl, lastBody, exitVars, sigVars>>

\* server.listen(3003) fails (port in use): the 'error' event has no
\* listener, so the uncaughtException handler logs and calls process.exit(1)
ServerListenError ==
    /\ Alive /\ task = "tick" /\ ~listening
    /\ Exit(1, "uncaught")
    /\ UNCHANGED <<brokerVars, apiVars, lifeVars, procVars, loopVars, healthVars, sigVars>>

\* the request listener of the health server
HealthRespond_WhenRunning(url) ==
    IF url = "/health" /\ consState = "RUNNING" THEN 200 ELSE 404

HealthRespond_AnyPath(url) == 200

HealthRespond(url) == IF url = "/health" THEN 200 ELSE 404

\* res.end(JSON.stringify({status, timestamp, service})) for /health,
\* res.end() otherwise
HealthBody(url) ==
    IF url = "/health" THEN [status |-> "OK", service |-> "kafka-consumer"]
    ELSE [status |-> "", service |-> ""]

ServerUp == listening /\ ~serverClosed /\ ~exited

\* what a client gets for a request: the status, or 0 when nothing answers
HealthAnswer(url) == IF ServerUp THEN HealthRespond(url) ELSE 0

HealthRequest(url) ==
    /\ HandlerMayRun /\ ServerUp
    /\ lastHealth' = HealthRespond(url)
    /\ lastUrl' = url
    /\ lastBody' = HealthBody(url)
    /\ UNCHANGED <<brokerVars, apiVars, lifeVars, procVars, loopVars, listening, serverClosed,
                   exitVars, sigVars>>

\* the broker acknowledges a send on the topic: the payload is appended to
\* the partition its key hashes to (followed for as long as the worker lives)
BrokerAppend(p, value) ==
    /\ Alive /\ TotalRecords < MaxRecords
    /\ topic' = [topic EXCEPT ![p] = Append(@, value)]
    /\ UNCHANGED <<redeliveries, consumerVars, apiVars>>

\* the group rebalances (or the runner restarts after a retriable error)
\* before the offsets of the last handled messages were committed: the
\* consumer resumes partition p after offset k, the last committed one, and
\* the messages after it are handed to eachMessage again
Redeliver(p, k) ==
    /\ Alive /\ HandlerMayRun /\ consState = "RUNNING"
    /\ redeliveries < MaxRedeliveries
    /\ joinOffset[p] <= k /\ k < position[p]
    /\ position' = [position EXCEPT ![p] = k]
    /\ redeliveries' = redeliveries + 1
    /\ UNCHANGED <<topic, apiVars, lifeVars, procVars, task, inflight, healthVars, exitVars,
                   sigVars>>

\* the broker acknowledges the next record of a long stream of ChangeRecords
\* on partition p, staying at most MaxBacklog records ahead of the consumer
BrokerStream(p, value) ==
    /\ Alive /\ Len(topic[p]) < MaxStream
    /\ Len(topic[p]) - position[p] < MaxBacklog
    /\ topic' = [topic EXCEPT ![p] = Append(@, value)]
    /\ UNCHANGED <<redeliveries, consumerVars, apiVars>>

\* processChange in the long stream: the sink refuses at most
\* MaxSinkFailures lines, and the clock reads MaxTime except, possibly, when
\* a statistics snapshot is due
\* the long stream: ChangeRecords and, while fewer than MaxSinkFailures
\* records have failed or are about to, a payload that is no JSON
StreamValues == {Stringify(c) : c \in SampleChangeLogs} \cup {NotJson}

StreamFailures(p) ==
    Cardinality(errorLog)
        + Cardinality({i \in (position[p] + 1)..Len(topic[p]) : topic[p][i] = NotJson})

StreamAppend(p, value) ==
    /\ value = NotJson => StreamFailures(p) < MaxSinkFailures
    /\ BrokerStream(p, value)

StreamProcess(m, now, sinkOk) ==
    /\ (sinkOk \/ StreamFailures(m[1]) < MaxSinkFailures)
    /\ (now = MaxTime \/ (processedCount + 1) % StatsEvery = 0)
    /\ processChange(m, now, sinkOk)


(***************************************************************************)
(* The API process.  A handler runs from one await to the next; between    *)
(* two awaits of one request the statements of other requests may run.     *)
(* The arrival of a request, its validation and its first database         *)
(* statement are one step (nothing shared is touched before the            *)
(* statement runs).  The clock is read once per request: the readings of   *)
(* one request fall into one tick.                                         *)
(***************************************************************************)
NoToken == <<>>
BadToken == <<0, 0, "bad-signature">>

\* bcrypt.hash(password, 10) and bcrypt.compare
Hash(password) == <<"bcrypt", password>>

\* jwt.sign({userId, username}, secret, {expiresIn}): the payload carries the
\* user and the issue time
Sign(userId, now) == <<userId, now>>

\* jwt.verify(token, secret) succeeds
Verifies(token) == Len(token) = 2

UserRow(username, email, password) ==
    [username |-> username, email |-> email, password |-> Hash(password),
     token |-> NoToken]

IdleReq ==
    [kind |-> "none", pc |-> "idle", status |-> 0, uid |-> 0, t |-> 0,
     token |-> NoToken, value |-> <<>>, send |-> "none", topic |-> "",
     writes |-> <<>>]

\* after startServer: the tables exist and hold the default user, the
\* producer is connected and the server listens
InitApi ==
    /\ users = <<UserRow("admin", "admin@example.com", "admin123")>>
    /\ activity = <<>>
    /\ issued = {}
    /\ req = [r \in Slots |-> IdleReq]
    /\ apiPc = "listening"
    /\ dbPool = "ready"
    /\ producer = "connected"
    /\ producerCalls = [connect |-> 1, disconnect |-> 0]
    /\ apiShutdown = "none"
    /\ apiSigPending = 0
    /\ apiSigCount = 0
    /\ apiExited = FALSE
    /\ apiExitCode = 0
    /\ apiExitVia = "none"

\* the API process when node starts the module: nothing is connected, the
\* database is empty
InitBoot ==
    /\ users = <<>>
    /\ activity = <<>>
    /\ issued = {}
    /\ req = [r \in Slots |-> IdleReq]
    /\ apiPc = "start"
    /\ dbPool = "none"
    /\ producer = "idle"
    /\ producerCalls = [connect |-> 0, disconnect |-> 0]
    /\ apiShutdown = "none"
    /\ apiSigPending = 0
    /\ apiSigCount = 0
    /\ apiExited = FALSE
    /\ apiExitCode = 0
    /\ apiExitVia = "none"

ApiAlive == ~apiExited

\* app.listen has been called: requests reach the handlers
ApiServing == ApiAlive /\ apiPc = "listening"

\* a statement can succeed only on a pool whose tables exist
DbAnswers(dbOk) == dbOk => dbPool = "ready"

\* a request slot is taken when the one before it is
Arrives(r) ==
    /\ ApiServing
    /\ req[r].pc = "idle" /\ (IF r = 1 THEN TRUE ELSE req[r - 1].pc # "idle")

\* res.status(code).json(...): the handler is done
Respond(r, kind, code) ==
    req' = [req EXCEPT ![r] = [@ EXCEPT !.kind = kind, !.pc = "done", !.status = code]]

SuccessStatus(kind) == IF kind = "register" THEN 201 ELSE 200

\* the request q of a handler after db.execute has resolved for an INSERT
\* or UPDATE statement on table
Wrote(q, operation, table) == [q EXCEPT !.writes = Append(@, <<operation, table>>)]

\* the topic producer.send is given, and the topic consumer.subscribe is given
ProducerTopic == "database-changes"
ConsumerTopic == "database-changes"

\* the request q of a handler after it has called
\* logDatabaseChange(operation, table, data, userId), up to the await in it:
\* changeLog is built and producer.send is called with its JSON text
logDatabaseChange_TableFirst(q, kind, now, operation, table, data, userId) ==
    [q EXCEPT !.kind = kind, !.pc = "send", !.send = "pending", !.t = now,
              !.topic = ProducerTopic,
              !.value = Stringify(ChangeLog(now, table, operation, data, userId))]

logDatabaseChange(q, kind, now, operation, table, data, userId) ==
    [q EXCEPT !.kind = kind, !.pc = "send", !.send = "pending", !.t = now,
              !.topic = ProducerTopic,
              !.value = Stringify(ChangeLog(now, operation, table, data, userId))]

\* POST /api/register up to the await of logDatabaseChange
register_NoValidation(r, username, email, password, now, dbOk) ==
    /\ Arrives(r) /\ DbAnswers(dbOk)
    /\ IF ~dbOk
       THEN Respond(r, "register", 500) /\ UNCHANGED users
       ELSE IF \E i \in 1..Len(users) :
                   users[i].username = username \/ users[i].email = email
       THEN Respond(r, "register", 400) /\ UNCHANGED users
       ELSE /\ users' = Append(users, UserRow(username, email, password))
            /\ req' = [req EXCEPT ![r] =
                   logDatabaseChange(Wrote(@, "INSERT", "users"), "register", now,
                       "INSERT", "users",
                       <<<<"id", Len(users) + 1>>, <<"username", username>>,
                         <<"email", email>>>>, 0)]
    /\ UNCHANGED <<brokerVars, consumerVars, apiLifeVars, activity, issued>>

register_PublishesHash(r, username, email, password, now, dbOk) ==
    /\ Arrives(r) /\ DbAnswers(dbOk)
    /\ IF username = "" \/ email = "" \/ password = ""
       THEN Respond(r, "register", 400) /\ UNCHANGED users
       ELSE IF ~dbOk
       THEN Respond(r, "register", 500) /\ UNCHANGED users
       ELSE IF \E i \in 1..Len(users) :
                   users[i].username = username \/ users[i].email = email
       THEN Respond(r, "register", 400) /\ UNCHANGED users
       ELSE /\ users' = Append(users, UserRow(username, email, password))
            /\ req' = [req EXCEPT ![r] =
                   logDatabaseChange(Wrote(@, "INSERT", "users"), "register", now,
                       "INSERT", "users",
                       <<<<"id", Len(users) + 1>>, <<"username", username>>,
                         <<"email", email>>, <<"password", Hash(password)>>>>, 0)]
    /\ UNCHANGED <<brokerVars, consumerVars, apiLifeVars, activity, issued>>

register(r, username, email, password, now, dbOk) ==
    /\ Arrives(r) /\ DbAnswers(dbOk)
    /\ IF username = "" \/ email = "" \/ password = ""
       THEN Respond(r, "register", 400) /\ UNCHANGED users
       ELSE IF ~dbOk
       THEN Respond(r, "register", 500) /\ UNCHANGED users
       ELSE IF \E i \in 1..Len(users) :
                   users[i].username = username \/ users[i].email = email
       THEN Respond(r, "register", 400) /\ UNCHANGED users
       ELSE /\ users' = Append(users, UserRow(username, email, password))
            /\ req' = [req EXCEPT ![r] =
                   logDatabaseChange(Wrote(@, "INSERT", "users"), "register", now,
                       "INSERT", "users",
                       <<<<"id", Len(users) + 1>>, <<"username", username>>,
                         <<"email", email>>>>, 0)]
    /\ UNCHANGED <<brokerVars, consumerVars, apiLifeVars, activity, issued>>

\* POST /api/login up to the await of the UPDATE that stores the token
login_NoPasswordCheck(r, username, password, now, dbOk) ==
    /\ Arrives(r) /\ DbAnswers(dbOk)
    /\ LET rows == {i \in 1..Len(users) :
                       users[i].username = username \/ users[i].email = username}
           user == CHOOSE i \in rows : \A k \in rows : i <= k
       IN  IF username = "" \/ password = ""
           THEN Respond(r, "login", 400) /\ UNCHANGED issued
           ELSE IF ~dbOk
           THEN Respond(r, "login", 500) /\ UNCHANGED issued
           ELSE IF rows = {}
           THEN Respond(r, "login", 401) /\ UNCHANGED issued
           ELSE /\ req' = [req EXCEPT ![r] =
                              [@ EXCEPT !.kind = "login", !.pc = "update", !.uid = user,
                                        !.t = now, !.token = Sign(user, now)]]
                /\ issued' = issued \cup {Sign(user, now)}
    /\ UNCHANGED <<brokerVars, consumerVars, apiLifeVars, dbVars>>

login(r, username, password, now, dbOk) ==
    /\ Arrives(r) /\ DbAnswers(dbOk)
    /\ LET rows == {i \in 1..Len(users) :
                       users[i].username = username \/ users[i].email = username}
           user == CHOOSE i \in rows : \A k \in rows : i <= k
       IN  IF username = "" \/ password = ""
           THEN Respond(r, "login", 400) /\ UNCHANGED issued
           ELSE IF ~dbOk
           THEN Respond(r, "login", 500) /\ UNCHANGED issued
           ELSE IF rows = {} \/ users[user].password # Hash(password)
           THEN Respond(r, "login", 401) /\ UNCHANGED issued
           ELSE /\ req' = [req EXCEPT ![r] =
                              [@ EXCEPT !.kind = "login", !.pc = "update", !.uid = user,
                                        !.t = now, !.token = Sign(user, now)]]
                /\ issued' = issued \cup {Sign(user, now)}
    /\ UNCHANGED <<brokerVars, consumerVars, apiLifeVars, dbVars>>

\* UPDATE users SET token = ? WHERE id = ?
LoginUpdate_KeepStored(r, dbOk) ==
    /\ ApiAlive /\ DbAnswers(dbOk)
    /\ req[r].kind = "login" /\ req[r].pc = "update"
    /\ IF dbOk
       THEN /\ users' = [users EXCEPT ![req[r].uid].token =
                            IF @ = NoToken THEN req[r].token ELSE @]
            /\ req' = [req EXCEPT ![r] = [Wrote(@, "UPDATE", "users") EXCEPT !.pc = "insert"]]
       ELSE Respond(r, "login", 500) /\ UNCHANGED users
    /\ UNCHANGED <<brokerVars, consumerVars, apiLifeVars, activity, issued>>

LoginUpdate(r, dbOk) ==
    /\ ApiAlive /\ DbAnswers(dbOk)
    /\ req[r].kind = "login" /\ req[r].pc = "update"
    /\ IF dbOk
       THEN /\ users' = [users EXCEPT ![req[r].uid].token = req[r].token]
            /\ req' = [req EXCEPT ![r] = [Wrote(@, "UPDATE", "users") EXCEPT !.pc = "insert"]]
       ELSE Respond(r, "login", 500) /\ UNCHANGED users
    /\ UNCHANGED <<brokerVars, consumerVars, apiLifeVars, activity, issued>>

ActivityData(ts, userId, action) ==
    <<<<"timestamp", ts>>, <<"userId", userId>>, <<"action", action>>,
      <<"ipAddress", "ip">>>>

\* INSERT INTO user_activity, then logDatabaseChange up to its await
LoginInsert_PublishOnFailure(r, dbOk) ==
    /\ ApiAlive /\ DbAnswers(dbOk)
    /\ req[r].kind = "login" /\ req[r].pc = "insert"
    /\ IF dbOk
       THEN /\ activity' = Append(activity, [user_id |-> req[r].uid, action |-> "LOGIN"])
            /\ req' = [req EXCEPT ![r] =
                   logDatabaseChange(Wrote(@, "INSERT", "user_activity"), "login", req[r].t,
                       "INSERT", "user_activity",
                       ActivityData(req[r].t, req[r].uid, "LOGIN"), req[r].uid)]
       ELSE /\ UNCHANGED activity
            /\ req' = [req EXCEPT ![r] =
                   logDatabaseChange(@, "login", req[r].t, "INSERT", "user_activity",
                       ActivityData(req[r].t, req[r].uid, "LOGIN"), req[r].uid)]
    /\ UNCHANGED <<brokerVars, consumerVars, apiLifeVars, users, issued>>

LoginInsert_Rollback(r, dbOk) ==
    /\ ApiAlive /\ DbAnswers(dbOk)
    /\ req[r].kind = "login" /\ req[r].pc = "insert"
    /\ IF dbOk
       THEN /\ activity' = Append(activity, [user_id |-> req[r].uid, action |-> "LOGIN"])
            /\ req' = [req EXCEPT ![r] =
                   logDatabaseChange(Wrote(@, "INSERT", "user_activity"), "login", req[r].t,
                       "INSERT", "user_activity",
                       ActivityData(req[r].t, req[r].uid, "LOGIN"), req[r].uid)]
            /\ UNCHANGED users
       ELSE /\ Respond(r, "login", 500) /\ UNCHANGED activity
            /\ users' = [users EXCEPT ![req[r].uid].token = NoToken]
    /\ UNCHANGED <<brokerVars, consumerVars, apiLifeVars, issued>>

LoginInsert(r, dbOk) ==
    /\ ApiAlive /\ DbAnswers(dbOk)
    /\ req[r].kind = "login" /\ req[r].pc = "insert"
    /\ IF dbOk
       THEN /\ activity' = Append(activity, [user_id |-> req[r].uid, action |-> "LOGIN"])
            /\ req' = [req EXCEPT ![r] =
                   logDatabaseChange(Wrote(@, "INSERT", "user_activity"), "login", req[r].t,
                       "INSERT", "user_activity",
                       ActivityData(req[r].t, req[r].uid, "LOGIN"), req[r].uid)]
       ELSE Respond(r, "login", 500) /\ UNCHANGED activity
    /\ UNCHANGED <<brokerVars, consumerVars, apiLifeVars, users, issued>>

\* the row authenticateToken selects (WHERE id = ? AND token = ?) exists
Stored_AnyTokenOfUser(token) ==
    /\ token[1] \in 1..Len(users)
    /\ users[token[1]].token # NoToken

Stored(token) ==
    /\ token[1] \in 1..Len(users)
    /\ users[token[1]].token = token

\* authenticateToken: the status it answers with, or 0 when it calls next()
authenticateToken_SignatureOnly(token, dbOk) ==
    IF token = NoToken THEN 401
    ELSE IF ~Verifies(token) \/ ~dbOk THEN 403
    ELSE 0

authenticateToken_Forbidden(token, dbOk) ==
    IF token = NoToken \/ ~Verifies(token) \/ ~dbOk THEN 403
    ELSE IF ~Stored(token) THEN 403
    ELSE 0

authenticateToken(token, dbOk) ==
    IF token = NoToken THEN 401
    ELSE IF ~Verifies(token) \/ ~dbOk THEN 403
    ELSE IF ~Stored(token) THEN 403
    ELSE 0

\* a protected request is answered by authenticateToken: its handler does
\* not run
Rejected(r, kind, token, code) ==
    req' = [req EXCEPT ![r] = [@ EXCEPT !.kind = kind, !.pc = "done", !.status = code,
                                        !.token = token]]

\* authenticateToken, then POST /api/logout up to the await of its UPDATE
logout(r, token, now, dbOk) ==
    /\ Arrives(r) /\ DbAnswers(dbOk)
    /\ IF authenticateToken(token, dbOk) # 0
       THEN Rejected(r, "logout", token, authenticateToken(token, dbOk))
       ELSE req' = [req EXCEPT ![r] =
                       [@ EXCEPT !.kind = "logout", !.pc = "update", !.uid = token[1],
                                 !.t = now, !.token = token]]
    /\ UNCHANGED <<brokerVars, consumerVars, apiLifeVars, dbVars, issued>>

\* authenticateToken, then GET /api/profile: it selects the user's row and
\* answers with it (no row is ever deleted, so the 404 branch is not taken)
profile(r, token, authOk, dbOk) ==
    /\ Arrives(r) /\ DbAnswers(authOk) /\ DbAnswers(dbOk)
    /\ IF authenticateToken(token, authOk) # 0
       THEN Rejected(r, "profile", token, authenticateToken(token, authOk))
       ELSE req' = [req EXCEPT ![r] =
                       [@ EXCEPT !.kind = "profile", !.pc = "done", !.uid = token[1],
                                 !.token = token,
                                 !.status = IF dbOk THEN 200 ELSE 500]]
    /\ UNCHANGED <<brokerVars, consumerVars, apiLifeVars, dbVars, issued>>

\* UPDATE users SET token = NULL WHERE id = ?
LogoutUpdate(r, dbOk) ==
    /\ ApiAlive /\ DbAnswers(dbOk)
    /\ req[r].kind = "logout" /\ req[r].pc = "update"
    /\ IF dbOk
       THEN /\ users' = [users EXCEPT ![req[r].uid].token = NoToken]
            /\ req' = [req EXCEPT ![r] = [Wrote(@, "UPDATE", "users") EXCEPT !.pc = "insert"]]
       ELSE Respond(r, "logout", 500) /\ UNCHANGED users
    /\ UNCHANGED <<brokerVars, consumerVars, apiLifeVars, activity, issued>>

\* INSERT INTO user_activity, then logDatabaseChange up to its await
LogoutInsert_Restore(r, dbOk) ==
    /\ ApiAlive /\ DbAnswers(dbOk)
    /\ req[r].kind = "logout" /\ req[r].pc = "insert"
    /\ IF dbOk
       THEN /\ activity' = Append(activity, [user_id |-> req[r].uid, action |-> "LOGOUT"])
            /\ req' = [req EXCEPT ![r] =
                   logDatabaseChange(Wrote(@, "INSERT", "user_activity"), "logout", req[r].t,
                       "UPDATE", "users",
                       <<<<"id", req[r].uid>>, <<"token", "null">>>>, req[r].uid)]
            /\ UNCHANGED users
       ELSE /\ Respond(r, "logout", 500) /\ UNCHANGED activity
            /\ users' = [users EXCEPT ![req[r].uid].token = req[r].token]
    /\ UNCHANGED <<brokerVars, consumerVars, apiLifeVars, issued>>

LogoutInsert(r, dbOk) ==
    /\ ApiAlive /\ DbAnswers(dbOk)
    /\ req[r].kind = "logout" /\ req[r].pc = "insert"
    /\ IF dbOk
       THEN /\ activity' = Append(activity, [user_id |-> req[r].uid, action |-> "LOGOUT"])
            /\ req' = [req EXCEPT ![r] =
                   logDatabaseChange(Wrote(@, "INSERT", "user_activity"), "logout", req[r].t,
                       "UPDATE", "users",
                       <<<<"id", req[r].uid>>, <<"token", "null">>>>, req[r].uid)]
       ELSE Respond(r, "logout", 500) /\ UNCHANGED activity
    /\ UNCHANGED <<brokerVars, consumerVars, apiLifeVars, users, issued>>

\* producer.send resolved: the broker has the record on the topic the send
\* named (followed here is the topic the consumer subscribes to);
\* logDatabaseChange logs and returns, and the handler sends its response
SendAcked_SharedBuffer(r, p) ==
    /\ ApiAlive /\ req[r].pc = "send"
    /\ producer = "connected"
    /\ LET last == CHOOSE q \in Reqs :
                       /\ req[q].send = "pending"
                       /\ \A k \in Reqs : req[k].send = "pending" => k <= q
       IN topic' = [topic EXCEPT ![p] = Append(@, req[last].value)]
    /\ req' = [req EXCEPT ![r] = [@ EXCEPT !.pc = "done", !.send = "acked",
                                           !.status = SuccessStatus(req[r].kind)]]
    /\ UNCHANGED <<redeliveries, consumerVars, apiLifeVars, dbVars, issued>>

SendAcked(r, p) ==
    /\ ApiAlive /\ req[r].pc = "send"
    /\ producer = "connected"
    /\ topic' = IF req[r].topic = ConsumerTopic
                THEN [topic EXCEPT ![p] = Append(@, req[r].value)]
                ELSE topic
    /\ req' = [req EXCEPT ![r] = [@ EXCEPT !.pc = "done", !.send = "acked",
                                           !.status = SuccessStatus(req[r].kind)]]
    /\ UNCHANGED <<redeliveries, consumerVars, apiLifeVars, dbVars, issued>>

\* producer.send rejected (broker unreachable, producer not connected,
\* timeout): the catch block of logDatabaseChange logs, logDatabaseChange
\* returns, and the handler sends its response
SendRejected_Propagates(r) ==
    /\ ApiAlive /\ req[r].pc = "send"
    /\ req' = [req EXCEPT ![r] = [@ EXCEPT !.pc = "done", !.send = "rejected",
                                           !.status = 500]]
    /\ UNCHANGED <<brokerVars, consumerVars, apiLifeVars, dbVars, issued>>

SendRejected(r) ==
    /\ ApiAlive /\ req[r].pc = "send"
    /\ req' = [req EXCEPT ![r] = [@ EXCEPT !.pc = "done", !.send = "rejected",
                                           !.status = SuccessStatus(req[r].kind)]]
    /\ UNCHANGED <<brokerVars, consumerVars, apiLifeVars, dbVars, issued>>

(***************************************************************************)
(* The life of the API process: startServer (initializeDatabase, then      *)
(* initializeKafka, then app.listen), and the SIGINT handler.              *)
(***************************************************************************)
\* the API process ends
ApiExit(code, via) ==
    /\ apiExited' = TRUE
    /\ apiExitCode' = code
    /\ apiExitVia' = via

\* startServer calls initializeDatabase, which connects to the server
startServer ==
    /\ ApiAlive /\ apiPc = "start"
    /\ apiPc' = "awaitDbConnect"
    /\ UNCHANGED <<brokerVars, consumerVars, dbVars, issued, req, dbPool, producer,
                   producerCalls, apiShutdown, apiSigPending, apiSigCount, apiExited,
                   apiExitCode, apiExitVia>>

\* the database helfy_db is created and db is set to the pool; createTables
\* is called
DbConnected ==
    /\ ApiAlive /\ apiPc = "awaitDbConnect"
    /\ dbPool' = "connected"
    /\ apiPc' = "awaitTables"
    /\ UNCHANGED <<brokerVars, consumerVars, dbVars, issued, req, producer, producerCalls,
                   apiShutdown, apiSigPending, apiSigCount, apiExited, apiExitCode,
                   apiExitVia>>

\* connecting (or CREATE DATABASE, or createPool) failed: the catch block of
\* initializeDatabase logs and calls process.exit(1)
DbConnectFailed_Continues ==
    /\ ApiAlive /\ apiPc = "awaitDbConnect"
    /\ apiPc' = "awaitKafka"
    /\ producer' = IF producer = "idle" THEN "connecting" ELSE producer
    /\ producerCalls' = [producerCalls EXCEPT !.connect = @ + 1]
    /\ UNCHANGED <<brokerVars, consumerVars, dbVars, issued, req, dbPool,
                   apiShutdown, apiSigPending, apiSigCount, apiExited, apiExitCode,
                   apiExitVia>>

DbConnectFailed ==
    /\ ApiAlive /\ apiPc = "awaitDbConnect"
    /\ apiPc' = "failed"
    /\ ApiExit(1, "startup")
    /\ UNCHANGED <<brokerVars, consumerVars, dbVars, issued, req, dbPool, producer,
                   producerCalls, apiShutdown, apiSigPending, apiSigCount>>

\* createTables: its own try/catch logs a failure and returns;
\* createDefaultUser is called either way
createTables(ok) ==
    /\ ApiAlive /\ apiPc = "awaitTables"
    /\ dbPool # "closed"
    /\ dbPool' = IF ok THEN "ready" ELSE dbPool
    /\ apiPc' = "awaitDefaultUser"
    /\ UNCHANGED <<brokerVars, consumerVars, dbVars, issued, req, producer, producerCalls,
                   apiShutdown, apiSigPending, apiSigCount, apiExited, apiExitCode,
                   apiExitVia>>

\* createDefaultUser: inserts admin when there is none; its own try/catch
\* logs a failure and returns.  initializeDatabase returns and startServer
\* calls initializeKafka, which calls producer.connect()
createDefaultUser(ok) ==
    /\ ApiAlive /\ apiPc = "awaitDefaultUser"
    /\ DbAnswers(ok)
    /\ users' = IF ok /\ ~(\E i \in 1..Len(users) : users[i].username = "admin")
                THEN Append(users, UserRow("admin", "admin@example.com", "admin123"))
                ELSE users
    /\ apiPc' = "awaitKafka"
    /\ producer' = IF producer = "idle" THEN "connecting" ELSE producer
    /\ producerCalls' = [producerCalls EXCEPT !.connect = @ + 1]
    /\ UNCHANGED <<brokerVars, consumerVars, activity, issued, req, dbPool, apiShutdown,
                   apiSigPending, apiSigCount, apiExited, apiExitCode, apiExitVia>>

\* producer.connect() resolved: initializeKafka logs and returns, and
\* startServer calls app.listen
ProducerConnected ==
    /\ ApiAlive /\ apiPc = "awaitKafka"
    /\ producer' = IF producer = "connecting" THEN "connected" ELSE producer
    /\ apiPc' = "listening"
    /\ UNCHANGED <<brokerVars, consumerVars, dbVars, issued, req, dbPool, producerCalls,
                   apiShutdown, apiSigPending, apiSigCount, apiExited, apiExitCode,
                   apiExitVia>>

\* producer.connect() rejected: the catch block of initializeKafka logs and
\* returns, and startServer calls app.listen
ProducerConnectFailed_Retries ==
    /\ ApiAlive /\ apiPc = "awaitKafka"
    /\ producerCalls' = [producerCalls EXCEPT !.connect = @ + 1]
    /\ UNCHANGED <<brokerVars, consumerVars, dbVars, issued, req, dbPool, producer, apiPc,
                   apiShutdown, apiSigPending, apiSigCount, apiExited, apiExitCode,
                   apiExitVia>>

ProducerConnectFailed ==
    /\ ApiAlive /\ apiPc = "awaitKafka"
    /\ producer' = IF producer = "connecting" THEN "failed" ELSE producer
    /\ apiPc' = "listening"
    /\ UNCHANGED <<brokerVars, consumerVars, dbVars, issued, req, dbPool, producerCalls,
                   apiShutdown, apiSigPending, apiSigCount, apiExited, apiExitCode,
                   apiExitVia>>

\* SIGINT is delivered to the API process
ApiSigint ==
    /\ ApiAlive /\ apiSigCount < MaxApiSignals
    /\ apiSigPending' = apiSigPending + 1
    /\ apiSigCount' = apiSigCount + 1
    /\ UNCHANGED <<brokerVars, consumerVars, dbVars, issued, req, apiPc, dbPool, producer,
                   producerCalls, apiShutdown, apiExited, apiExitCode, apiExitVia>>

\* SIGTERM is delivered to the API process: the module installs a handler
\* for SIGINT only, so the default action ends the process
ApiSigterm ==
    /\ ApiAlive
    /\ ApiExit(143, "sigterm")
    /\ UNCHANGED <<brokerVars, consumerVars, dbVars, issued, req, apiPc, dbPool, producer,
                   producerCalls, apiShutdown, apiSigPending, apiSigCount>>

\* the SIGINT handler up to its first await: producer.disconnect() is called
ApiShutdown ==
    /\ ApiAlive /\ apiSigPending > 0
    /\ apiSigPending' = apiSigPending - 1
    /\ producerCalls' = [producerCalls EXCEPT !.disconnect = @ + 1]
    /\ producer' = "disconnecting"
    /\ apiShutdown' = IF apiShutdown = "none" THEN "awaitDisconnect" ELSE apiShutdown
    /\ UNCHANGED <<brokerVars, consumerVars, dbVars, issued, req, apiPc, dbPool,
                   apiSigCount, apiExited, apiExitCode, apiExitVia>>

\* producer.disconnect() resolved: db.end() is called if db is set,
\* process.exit(0) otherwise
ProducerDisconnected ==
    /\ ApiAlive /\ apiShutdown = "awaitDisconnect"
    /\ producer' = "disconnected"
    /\ IF dbPool = "none"
       THEN ApiExit(0, "shutdown") /\ UNCHANGED apiShutdown
       ELSE apiShutdown' = "awaitEnd" /\ UNCHANGED <<apiExited, apiExitCode, apiExitVia>>
    /\ UNCHANGED <<brokerVars, consumerVars, dbVars, issued, req, apiPc, dbPool,
                   producerCalls, apiSigPending, apiSigCount>>

\* producer.disconnect() rejected: the catch block logs and calls
\* process.exit(1)
ProducerDisconnectFailed ==
    /\ ApiAlive /\ apiShutdown = "awaitDisconnect"
    /\ ApiExit(1, "shutdown")
    /\ UNCHANGED <<brokerVars, consumerVars, dbVars, issued, req, apiPc, dbPool, producer,
                   producerCalls, apiShutdown, apiSigPending, apiSigCount>>

\* db.end() resolved: process.exit(0)
DbEnded ==
    /\ ApiAlive /\ apiShutdown = "awaitEnd"
    /\ dbPool' = "closed"
    /\ ApiExit(0, "shutdown")
    /\ UNCHANGED <<brokerVars, consumerVars, dbVars, issued, req, apiPc, producer,
                   producerCalls, apiShutdown, apiSigPending, apiSigCount>>

\* db.end() rejected: the catch block logs and calls process.exit(1)
DbEndFailed ==
    /\ ApiAlive /\ apiShutdown = "awaitEnd"
    /\ ApiExit(1, "shutdown")
    /\ UNCHANGED <<brokerVars, consumerVars, dbVars, issued, req, apiPc, dbPool, producer,
                   producerCalls, apiShutdown, apiSigPending, apiSigCount>>

vars == <<brokerVars, consumerVars, apiVars>>

(***************************************************************************)
(* The worker with the broker as its environment.                          *)
(***************************************************************************)
NextWorker ==
    \/ runConsumer
    \/ ConnectResolved
    \/ ConnectRejected
    \/ SubscribeResolved
    \/ SubscribeRejected
    \/ RunResolved
    \/ RunRejected
    \/ \E p \in Partitions : eachMessage(p)
    \/ \E m \in inflight, now \in Times, sinkOk \in BOOLEAN : processChange(m, now, sinkOk)
    \/ Signal
    \/ gracefulShutdown
    \/ DisconnectResolved
    \/ DisconnectRejected
    \/ ServerListening
    \/ ServerListenError
    \/ \E url \in {"/health", "/"} : HealthRequest(url)
    \/ \E p \in Partitions, value \in WireValues : BrokerAppend(p, value)

Init ==
    /\ topic = [p \in Partitions |-> <<>>]
    /\ redeliveries = 0
    /\ InitConsumer
    /\ InitApi

SpecWorker == Init /\ [][NextWorker]_vars

(***************************************************************************)
(* The worker under normal operation: the broker is reachable and answers  *)
(* every call, no termination signal arrives, the port is free and the     *)
(* sink accepts every line.  The event loop runs every callback that is    *)
(* ready, and the broker hands over the messages it has.                   *)
(***************************************************************************)
NextNormal ==
    \/ runConsumer
    \/ ServerListening
    \/ ConnectResolved
    \/ SubscribeResolved
    \/ RunResolved
    \/ \E p \in Partitions : eachMessage(p)
    \/ \E m \in inflight, now \in Times : processChange(m, now, TRUE)
    \/ \E p \in Partitions, value \in WireValues : BrokerAppend(p, value)

FairWorker ==
    /\ WF_vars(runConsumer)
    /\ WF_vars(ServerListening)
    /\ WF_vars(ConnectResolved)
    /\ WF_vars(SubscribeResolved)
    /\ WF_vars(RunResolved)
    /\ \A p \in Partitions : WF_vars(eachMessage(p))
    /\ WF_vars(\E m \in inflight, now \in Times : processChange(m, now, TRUE))

SpecNormal == Init /\ [][NextNormal]_vars /\ FairWorker

(***************************************************************************)
(* The worker fed with a long stream of ChangeRecords on one partition:    *)
(* the setup calls succeed, no termination signal arrives, and the sink    *)
(* may refuse a line.                                                      *)
(***************************************************************************)
NextStream ==
    \/ runConsumer
    \/ ServerListening
    \/ ConnectResolved
    \/ SubscribeResolved
    \/ RunResolved
    \/ eachMessage(1)
    \/ \E m \in inflight, now \in Times, sinkOk \in BOOLEAN : StreamProcess(m, now, sinkOk)
    \/ \E value \in StreamValues : StreamAppend(1, value)

SpecStream == Init /\ [][NextStream]_vars

(***************************************************************************)
(* The change processor on every kind of payload: the setup calls succeed, *)
(* no termination signal arrives, the records arrive on one partition     *)
(* and the sink may refuse a line.  The event loop runs every callback     *)
(* that is ready.                                                          *)
(***************************************************************************)
NextProcessor ==
    \/ runConsumer
    \/ ServerListening
    \/ ConnectResolved
    \/ SubscribeResolved
    \/ RunResolved
    \/ eachMessage(1)
    \/ \E m \in inflight, now \in Times, sinkOk \in BOOLEAN : processChange(m, now, sinkOk)
    \/ \E value \in ProcessorValues : BrokerAppend(1, value)

FairProcessor ==
    /\ WF_vars(runConsumer)
    /\ WF_vars(ServerListening)
    /\ WF_vars(ConnectResolved)
    /\ WF_vars(SubscribeResolved)
    /\ WF_vars(RunResolved)
    /\ WF_vars(eachMessage(1))
    /\ WF_vars(\E m \in inflight, now \in Times, sinkOk \in BOOLEAN :
                   processChange(m, now, sinkOk))

SpecProcessor == Init /\ [][NextProcessor]_vars /\ FairProcessor

(***************************************************************************)
(* The worker under at-least-once delivery: as under normal operation, but *)
(* the broker may hand out again messages that were handled already.       *)
(***************************************************************************)
NextRedelivery ==
    \/ runConsumer
    \/ ServerListening
    \/ ConnectResolved
    \/ SubscribeResolved
    \/ RunResolved
    \/ eachMessage(1)
    \/ \E m \in inflight, now \in Times : processChange(m, now, TRUE)
    \/ \E value \in WireValues : BrokerAppend(1, value)
    \/ \E k \in 0..MaxRecords : Redeliver(1, k)

SpecRedelivery == Init /\ [][NextRedelivery]_vars

(***************************************************************************)
(* The API with the database and the broker as its environment.            *)
(***************************************************************************)
\* the bodies of the register and login requests: a field may be missing,
\* name a user that exists or one that does not
RegisterUsernames == {"", "admin", "bob"}
RegisterEmails == {"", "bob@x"}
RegisterPasswords == {"", "pw"}
LoginUsernames == {"", "admin", "bob@x", "nobody"}
LoginPasswords == {"", "admin123", "pw"}

NextApi ==
    \/ \E r \in Reqs :
          /\ Arrives(r)
          /\ \E username \in RegisterUsernames, email \in RegisterEmails,
                password \in RegisterPasswords, now \in Times, dbOk \in BOOLEAN :
                  register(r, username, email, password, now, dbOk)
    \/ \E r \in Reqs :
          /\ Arrives(r)
          /\ \E username \in LoginUsernames, password \in LoginPasswords,
                now \in Times, dbOk \in BOOLEAN :
                  login(r, username, password, now, dbOk)
    \/ \E r \in Reqs, dbOk \in BOOLEAN : LoginUpdate(r, dbOk)
    \/ \E r \in Reqs, dbOk \in BOOLEAN : LoginInsert(r, dbOk)
    \/ \E r \in Reqs :
          /\ Arrives(r)
          /\ \E token \in {NoToken, BadToken} \cup issued, now \in Times,
                dbOk \in BOOLEAN :
                  logout(r, token, now, dbOk)
    \/ \E r \in Reqs, dbOk \in BOOLEAN : LogoutUpdate(r, dbOk)
    \/ \E r \in Reqs, dbOk \in BOOLEAN : LogoutInsert(r, dbOk)
    \/ \E r \in Reqs, p \in Partitions : SendAcked(r, p)
    \/ \E r \in Reqs : SendRejected(r)

SpecApi == Init /\ [][NextApi]_vars

(***************************************************************************)
(* The sessions of the API: logins, logouts and profile requests of the    *)
(* default user, with the database and the broker answering every call of  *)
(* a handler (the SELECT of authenticateToken may fail).  It starts when   *)
(* the default user has logged in once, at time 0.                         *)
(***************************************************************************)
\* the state after POST /api/login {admin, admin123} at time 0 was answered
InitLoggedIn ==
    /\ users = <<[UserRow("admin", "admin@example.com", "admin123")
                     EXCEPT !.token = Sign(1, 0)]>>
    /\ activity = <<[user_id |-> 1, action |-> "LOGIN"]>>
    /\ issued = {Sign(1, 0)}
    /\ req = [r \in Slots |-> IdleReq]
    /\ apiPc = "listening"
    /\ dbPool = "ready"
    /\ producer = "connected"
    /\ producerCalls = [connect |-> 1, disconnect |-> 0]
    /\ apiShutdown = "none"
    /\ apiSigPending = 0
    /\ apiSigCount = 0
    /\ apiExited = FALSE
    /\ apiExitCode = 0
    /\ apiExitVia = "none"

InitSession ==
    /\ topic = [p \in Partitions |->
                   IF p = 1
                   THEN <<Stringify(ChangeLog(0, "INSERT", "user_activity",
                                              ActivityData(0, 1, "LOGIN"), 1))>>
                   ELSE <<>>]
    /\ redeliveries = 0
    /\ InitConsumer
    /\ InitLoggedIn

NextAuth ==
    \/ \E r \in AuthReqs, password \in {"admin123", "pw"}, now \in Times :
            login(r, "admin", password, now, TRUE)
    \/ \E r \in AuthReqs : LoginUpdate(r, TRUE)
    \/ \E r \in AuthReqs : LoginInsert(r, TRUE)
    \/ \E r \in AuthReqs, token \in {NoToken, BadToken} \cup issued, now \in Times,
          dbOk \in BOOLEAN :
            logout(r, token, now, dbOk)
    \/ \E r \in AuthReqs : LogoutUpdate(r, TRUE)
    \/ \E r \in AuthReqs, dbOk \in BOOLEAN : LogoutInsert(r, dbOk)
    \/ \E r \in AuthReqs, token \in {NoToken, BadToken} \cup issued, authOk \in BOOLEAN :
            profile(r, token, authOk, TRUE)
    \/ \E r \in AuthReqs : SendAcked(r, 1)

SpecAuth == InitSession /\ [][NextAuth]_vars

(***************************************************************************)
(* The API process from the start of node to its end, with one register    *)
(* request.                                                                *)
(***************************************************************************)
NextApiLife ==
    \/ startServer
    \/ DbConnected
    \/ DbConnectFailed
    \/ \E ok \in BOOLEAN : createTables(ok)
    \/ \E ok \in BOOLEAN : createDefaultUser(ok)
    \/ ProducerConnected
    \/ ProducerConnectFailed
    \/ ApiSigint
    \/ ApiSigterm
    \/ ApiShutdown
    \/ ProducerDisconnected
    \/ ProducerDisconnectFailed
    \/ DbEnded
    \/ DbEndFailed
    \/ \E username \in {"", "admin", "bob"}, email \in {"", "bob@x"},
          password \in {"", "pw"}, now \in Times, dbOk \in BOOLEAN :
            register(1, username, email, password, now, dbOk)
    \/ \E p \in Partitions : SendAcked(1, p)
    \/ SendRejected(1)

InitLife ==
    /\ topic = [p \in Partitions |-> <<>>]
    /\ redeliveries = 0
    /\ InitConsumer
    /\ InitBoot

SpecApiLife == InitLife /\ [][NextApiLife]_vars

(***************************************************************************)
(* The API with users that choose different passwords: a new user          *)
(* registers with one of two passwords and the users log in and out; every *)
(* statement succeeds and every publish is acknowledged.                   *)
(***************************************************************************)
SecretPasswords == {"pw", "pw2"}

NextSecrets ==
    \/ \E r \in Reqs :
          /\ Arrives(r)
          /\ \E password \in SecretPasswords, now \in Times :
                  register(r, "bob", "bob@x", password, now, TRUE)
    \/ \E r \in Reqs :
          /\ Arrives(r)
          /\ \E username \in {"admin", "bob@x"},
                password \in SecretPasswords \cup {"admin123"}, now \in Times :
                  login(r, username, password, now, TRUE)
    \/ \E r \in Reqs : LoginUpdate(r, TRUE)
    \/ \E r \in Reqs : LoginInsert(r, TRUE)
    \/ \E r \in Reqs :
          /\ Arrives(r)
          /\ \E token \in issued, now \in Times : logout(r, token, now, TRUE)
    \/ \E r \in Reqs : LogoutUpdate(r, TRUE)
    \/ \E r \in Reqs : LogoutInsert(r, TRUE)
    \/ \E r \in Reqs : SendAcked(r, 1)

SpecSecrets == Init /\ [][NextSecrets]_vars

(***************************************************************************)
(* Properties of the API.                                                  *)
(***************************************************************************)
\* C1: in the step in which producer.send rejects, the handler answers with
\* its success status (201 for register, 200 for login and logout) and is
\* done, and the rows of users and user_activity are left as they are.
C1_PublishFailureSwallowed ==
    [][\A r \in Reqs :
          (req[r].send = "pending" /\ req'[r].send = "rejected")
              => /\ req'[r].status = SuccessStatus(req[r].kind)
                 /\ req'[r].status \in {200, 201}
                 /\ req'[r].pc = "done"
                 /\ users' = users
                 /\ activity' = activity]_vars

C1_Witness ==
    \E r \in Reqs :
        /\ req[r].kind = "register" /\ req[r].send = "rejected"
        /\ req[r].status = 201
        /\ Len(users) = 2 /\ users[2].username = "bob"

\* C2 (as claimed): the response of a write handler does not wait for the
\* publish: whenever the send of a request is pending, its response has
\* been sent.
C2_ResponseDoesNotWaitForPublish ==
    \A r \in Reqs : req[r].send = "pending" => req[r].status # 0

(***************************************************************************)
(* Properties of the worker.                                               *)
(***************************************************************************)
Messages == Partitions \X (1..MaxRecords)

Acked(m) == m[2] <= Len(topic[m[1]])

\* number of ProcessedChangeRecords written to the sink for message m
EmitCount(m) == Cardinality({i \in 1..Len(sink) : sink[i].src = m})

\* processChange has returned for m
Handled(m) == position[m[1]] >= m[2]

SinkFailedFor(m) == [src |-> m, reason |-> "sink"] \in errorLog

\* m was acknowledged after the consumer had joined the group
AckedWhileRunning(m) ==
    /\ Acked(m)
    /\ joinOffset[m[1]] # Undefined
    /\ m[2] > joinOffset[m[1]]

\* C3: under normal operation every ChangeRecord the broker acknowledged
\* while the consumer was running is eventually written to the sink as a
\* ProcessedChangeRecord, and no record is written more than once.
C3_EveryRecordEmittedExactlyOnce ==
    /\ [](\A m \in Messages : EmitCount(m) <= 1)
    /\ \A m \in Messages :
          (AckedWhileRunning(m) /\ IsChangeRecord(MessageValue(m)))
              ~> (EmitCount(m) = 1)

C3_Witness ==
    \E m \in Messages :
        /\ AckedWhileRunning(m)
        /\ IsChangeRecord(MessageValue(m))
        /\ EmitCount(m) = 1

\* C4: when processChange returns for a payload that is no JSON, nothing was
\* written to the sink, processedCount is unchanged, the error is logged,
\* the consumer is still RUNNING and the process alive, the offset has
\* advanced, and the later records of the partition are handled too.
C4_MalformedSkipped ==
    /\ [][\A m \in inflight :
            (~JsonParses(MessageValue(m)) /\ m \notin inflight')
                => /\ sink' = sink
                   /\ processedCount' = processedCount
                   /\ consState' = "RUNNING"
                   /\ ~exited'
                   /\ task' = "none"
                   /\ position'[m[1]] = m[2]
                   /\ [src |-> m, reason |-> "parse"] \in errorLog']_vars
    /\ \A p \in Partitions, i \in 1..MaxRecords, j \in 2..MaxRecords :
          (/\ i < j
           /\ AckedWhileRunning(<<p, i>>) /\ Acked(<<p, j>>)
           /\ ~JsonParses(MessageValue(<<p, i>>)))
              ~> (/\ Handled(<<p, j>>)
                  /\ IsChangeRecord(MessageValue(<<p, j>>)) => EmitCount(<<p, j>>) = 1)

C4_Witness ==
    \E p \in Partitions, i \in 1..MaxRecords, j \in 2..MaxRecords :
        /\ i < j
        /\ AckedWhileRunning(<<p, i>>) /\ Acked(<<p, j>>)
        /\ ~JsonParses(MessageValue(<<p, i>>))
        /\ [src |-> <<p, i>>, reason |-> "parse"] \in errorLog
        /\ EmitCount(<<p, j>>) = 1
        /\ consState = "RUNNING"

\* C5: at most one message of a partition is in flight, and the message in
\* flight is the one right after the last message of the partition whose
\* handler returned.
C5_OneAtATimeInOffsetOrder ==
    /\ \A p \in Partitions : Cardinality({m \in inflight : m[1] = p}) <= 1
    /\ \A m \in inflight : m[2] = position[m[1]] + 1
    /\ \A i, j \in 1..Len(sink) :
          (i < j /\ sink[i].src[1] = sink[j].src[1]) => sink[i].src[2] < sink[j].src[2]

C5_Witness ==
    \E m \in inflight : m[2] = 2 /\ position[m[1]] = 1 /\ joinOffset[m[1]] = 0

\* C6: a message that was in processChange when a termination signal
\* arrived has been handled before the health server is closed or the
\* process exits, and its ProcessedChangeRecord is in the sink (unless the
\* sink itself refused it).
C6_RecordFinishedBeforeShutdown ==
    \A m \in sigDuring :
        (serverClosed \/ exited)
            => /\ Handled(m)
               /\ IsChangeRecord(MessageValue(m)) => (EmitCount(m) = 1 \/ SinkFailedFor(m))

C6_Witness ==
    /\ exited /\ exitVia = "shutdown" /\ serverClosed
    /\ \E m \in sigDuring : IsChangeRecord(MessageValue(m)) /\ EmitCount(m) = 1

\* C7 (as claimed): every exit of gracefulShutdown comes after server.close().
C7_ServerClosedBeforeEveryShutdownExit ==
    (exited /\ exitVia = "shutdown") => serverClosed


\* the transitions of the lifecycle the state machine names
Chain ==
    {<<"DISCONNECTED", "CONNECTING">>, <<"CONNECTING", "SUBSCRIBED">>,
     <<"SUBSCRIBED", "RUNNING">>, <<"RUNNING", "DISCONNECTING">>,
     <<"DISCONNECTING", "DISCONNECTED">>}

\* a termination signal handled before the consumer is RUNNING
EarlyShutdown ==
    {<<"CONNECTING", "DISCONNECTING">>, <<"SUBSCRIBED", "DISCONNECTING">>}

\* subscribe is called only in the step in which connect resolved, run only
\* in the step in which subscribe resolved, and a message is handed to
\* eachMessage only while the consumer is RUNNING
SetupAndDeliveryInOrder ==
    /\ (calls'.subscribe > calls.subscribe) => (cpc = "awaitConnect" /\ startupError' = "none")
    /\ (calls'.run > calls.run) => (cpc = "awaitSubscribe" /\ startupError' = "none")
    /\ ~(inflight' \subseteq inflight) => (consState = "RUNNING" /\ consState' = "RUNNING")
    /\ consState \in {"DISCONNECTED", "CONNECTING", "SUBSCRIBED"} => (sink' = sink /\ inflight' = {})

\* C8 (as claimed): the lifecycle takes only the transitions of the chain.
C8_OnlyChainTransitions ==
    [][/\ (consState' # consState) => (<<consState, consState'>> \in Chain)
       /\ SetupAndDeliveryInOrder]_vars

\* C8 (amended): the lifecycle takes the transitions of the chain and, when
\* a termination signal is handled before the consumer is RUNNING, the
\* transitions CONNECTING -> DISCONNECTING and SUBSCRIBED -> DISCONNECTING;
\* subscribe follows a resolved connect, run a resolved subscribe, and
\* records are handed to processChange only while RUNNING.
C8_Lifecycle ==
    [][/\ (consState' # consState) => (<<consState, consState'>> \in Chain \cup EarlyShutdown)
       /\ SetupAndDeliveryInOrder]_vars

C8_Witness ==
    /\ consState = "DISCONNECTED" /\ exited /\ exitVia = "shutdown"
    /\ Len(sink) > 0

\* C9: a setup call of runConsumer that rejects ends the process with a
\* non-zero exit code; connect, subscribe and run are each called at most
\* once, and no later setup call is made after one rejected.
C9_StartupFailureIsFatal ==
    /\ startupError # "none" => (exited /\ exitCode # 0)
    /\ calls.connect <= 1 /\ calls.subscribe <= 1 /\ calls.run <= 1
    /\ startupError = "connect" => (calls.subscribe = 0 /\ calls.run = 0)
    /\ startupError = "subscribe" => calls.run = 0

C9_Witness ==
    /\ startupError = "subscribe" /\ exited /\ exitCode = 1
    /\ calls = [connect |-> 1, subscribe |-> 1, run |-> 0]

\* C10 (as claimed): once listening, /health is answered with 200 until a
\* termination signal is handled.
C10_HealthStopsOnlyOnSignal ==
    (listening /\ shutdownCalls = 0) => HealthAnswer("/health") = 200

\* C10 (amended): once listening, /health is answered with 200 in every
\* state in which the process has not exited, whatever the state of the
\* consumer; it stops being answered only when the process exits, through
\* the termination-signal path or through a failed connect, subscribe or run.
C10_HealthUntilExit ==
    /\ (listening /\ ~exited) => HealthAnswer("/health") = 200
    /\ (listening /\ HealthAnswer("/health") # 200)
           => (exited /\ exitVia \in {"shutdown", "startup"})
    /\ lastHealth \in {0, 200, 404}

C10_Witness ==
    /\ lastHealth = 200 /\ HealthAnswer("/health") = 200
    /\ consState = "DISCONNECTING" /\ cpc = "awaitConnect"

\* C11: a statistics snapshot is written in exactly the steps in which
\* processedCount becomes a multiple of 10, one snapshot per such step, and
\* its totalProcessed is processedCount at that moment: the k-th snapshot
\* reports 10 * k, and there are processedCount \div 10 snapshots.
C11_StatsEveryTenth ==
    /\ [](/\ Len(statsLog) = processedCount \div StatsEvery
          /\ \A k \in 1..Len(statsLog) : statsLog[k].totalProcessed = k * StatsEvery)
    /\ [][/\ (statsLog' # statsLog)
                => /\ Len(statsLog') = Len(statsLog) + 1
                   /\ processedCount' = processedCount + 1
                   /\ processedCount' % StatsEvery = 0
                   /\ statsLog'[Len(statsLog')].totalProcessed = processedCount'
          /\ (processedCount' # processedCount /\ processedCount' % StatsEvery = 0)
                => statsLog' # statsLog]_vars

C11_Witness ==
    /\ Len(statsLog) = 2 /\ processedCount = 2 * StatsEvery
    /\ errorLog # {}
    /\ position[1] = 2 * StatsEvery + 1

\* the payload a line of the sink was made from
SinkSource(i) == MessageValue(sink[i].src)

\* C12 (as claimed): every ProcessedChangeRecord written to the sink has a
\* processing latency >= 0.
C12_LatencyNeverNegative ==
    \A i \in 1..Len(sink) : sink[i].rec.processingLatency >= 0

\* C12 (amended): for every payload that carries a timestamp the latency is
\* max(0, now - originalTimestamp): 0 when the original timestamp lies in
\* the future, the difference otherwise, and never negative.  A JSON object
\* without a timestamp is emitted too, and its latency is NaN.
C12_LatencyClamped ==
    \A i \in 1..Len(sink) :
        LET rec == sink[i].rec
            originalTimestamp == SinkSource(i)[2]
        IN  IF originalTimestamp = Undefined
            THEN rec.processingLatency = NaN
            ELSE /\ rec.processingLatency >= 0
                 /\ originalTimestamp > rec.timestamp => rec.processingLatency = 0
                 /\ originalTimestamp <= rec.timestamp
                        => rec.processingLatency = rec.timestamp - originalTimestamp

C12_Witness ==
    \E i, j \in 1..Len(sink) :
        /\ sink[i].rec.originalTimestamp > sink[i].rec.timestamp
        /\ sink[i].rec.processingLatency = 0
        /\ sink[j].rec.originalTimestamp # Undefined
        /\ sink[j].rec.processingLatency = MaxTime

\* C14: when databaseLogger.info throws for a record, processChange logs the
\* error and returns: nothing is written, the offset advances, the consumer
\* stays RUNNING and the process alive; and the next record of the
\* partition is handled.
C14_SinkFailureSkipped ==
    /\ [][\A m \in inflight :
            (IsJsonObject(MessageValue(m)) /\ m \notin inflight' /\ sink' = sink)
                => /\ [src |-> m, reason |-> "sink"] \in errorLog'
                   /\ processedCount' = processedCount
                   /\ position'[m[1]] = m[2]
                   /\ consState' = "RUNNING"
                   /\ ~exited'
                   /\ task' = "none"]_vars
    /\ \A p \in Partitions, i \in 1..MaxRecords :
          (SinkFailedFor(<<p, i>>) /\ Acked(<<p, i + 1>>))
              ~> (/\ position[p] >= i + 1
                  /\ IsChangeRecord(MessageValue(<<p, i + 1>>))
                        => (EmitCount(<<p, i + 1>>) >= 1 \/ SinkFailedFor(<<p, i + 1>>)))

C14_Witness ==
    \E i \in 1..MaxRecords :
        /\ SinkFailedFor(<<1, i>>) /\ EmitCount(<<1, i>>) = 0
        /\ Acked(<<1, i + 1>>) /\ EmitCount(<<1, i + 1>>) = 1
        /\ consState = "RUNNING" /\ ~exited

\* C16: the lines written for one message, however often it is delivered,
\* have the same data, operation, table, userId and originalTimestamp; and
\* a delivery of a message that was emitted before is processed like the
\* first one: one more line is written and processedCount grows by 1.
C16_RedeliveryProcessedAgain ==
    /\ [](\A i, j \in 1..Len(sink) :
              sink[i].src = sink[j].src
                  => /\ sink[i].rec.data = sink[j].rec.data
                     /\ sink[i].rec.operation = sink[j].rec.operation
                     /\ sink[i].rec.table = sink[j].rec.table
                     /\ sink[i].rec.userId = sink[j].rec.userId
                     /\ sink[i].rec.originalTimestamp = sink[j].rec.originalTimestamp)
    /\ [](processedCount = Len(sink))
    /\ [][\A m \in inflight :
            (m \notin inflight' /\ IsJsonObject(MessageValue(m)))
                => /\ Len(sink') = Len(sink) + 1
                   /\ sink'[Len(sink')].src = m
                   /\ processedCount' = processedCount + 1]_vars

C16_Witness ==
    /\ redeliveries = 1 /\ processedCount = 2
    /\ Len(sink) = 2 /\ sink[1].src = sink[2].src
    /\ sink[1].rec.timestamp # sink[2].rec.timestamp

\* C17: every line of the sink carries the operation, table, data and
\* userId of the payload it was made from, that payload's timestamp as
\* originalTimestamp, and processedBy 'kafka-consumer'; for a payload that
\* logDatabaseChange sent these are the fields of its changeLog; and the
\* payloads on the topic stay as they were.
C17_PayloadFieldsCarriedOver ==
    /\ [](\A i \in 1..Len(sink) :
              LET rec == sink[i].rec
                  value == SinkSource(i)
              IN  /\ rec.originalTimestamp = value[2]
                  /\ rec.operation = value[3]
                  /\ rec.table = value[4]
                  /\ rec.data = value[5]
                  /\ rec.userId = value[6]
                  /\ rec.processedBy = "kafka-consumer"
                  /\ \A c \in ProcessorChangeLogs :
                        value = Stringify(c)
                            => /\ rec.originalTimestamp = c.timestamp
                               /\ rec.operation = c.operation
                               /\ rec.table = c.table
                               /\ rec.data = c.data
                               /\ rec.userId = c.userId)
    /\ [][\A p \in Partitions :
            /\ Len(topic'[p]) >= Len(topic[p])
            /\ SubSeq(topic'[p], 1, Len(topic[p])) = topic[p]]_vars

C17_Witness ==
    \E i \in 1..Len(sink) :
        /\ sink[i].rec.operation = "UPDATE" /\ sink[i].rec.table = "users"
        /\ sink[i].rec.userId = 1 /\ sink[i].rec.originalTimestamp = 0
        /\ sink[i].rec.timestamp = MaxTime
        /\ sink[i].rec.processedBy = "kafka-consumer"

\* C19: a request for /health is answered with 200 and a body with status
\* 'OK' and service 'kafka-consumer', a request for another path with 404
\* and no body, in every state of the consumer and for every processedCount.
C19_HealthByPathOnly ==
    /\ lastUrl = "/health"
          => /\ lastHealth = 200
             /\ lastBody.status = "OK" /\ lastBody.service = "kafka-consumer"
    /\ lastUrl \notin {"", "/health"}
          => /\ lastHealth = 404
             /\ lastBody = [status |-> "", service |-> ""]
    /\ lastUrl = "" <=> lastHealth = 0

C19_Witness ==
    /\ lastUrl = "/health" /\ lastHealth = 200 /\ lastBody.service = "kafka-consumer"
    /\ consState = "CONNECTING" /\ cpc = "awaitConnect" /\ processedCount = 0

\* C20: processedCount is 0 until the first record is processed, never
\* decreases, changes only in the step in which processChange returns, and
\* grows by at most 1 in a step.
C20_CountMonotonic ==
    /\ [](processedCount >= 0 /\ (Len(sink) = 0 => processedCount = 0))
    /\ [][/\ processedCount' >= processedCount
          /\ processedCount' <= processedCount + 1
          /\ (processedCount' # processedCount)
                => /\ task = "eachMessage" /\ task' = "none"
                   /\ \E m \in inflight : m \notin inflight']_vars

C20_Witness ==
    /\ processedCount = 1 /\ Len(sink) = 1
    /\ \E e \in errorLog : e.src[1] = sink[1].src[1] /\ e.src[2] > sink[1].src[2]
    /\ exited /\ exitVia = "shutdown"

\* C28: processedCount is the number of lines written to the sink; a
\* message whose payload is no JSON, or whose line the sink refused, has no
\* line and is not counted, so the messages handled are the lines plus the
\* failures; and a snapshot exists for every tenth line, not for every
\* tenth message handled.
C28_CountEqualsEmitted ==
    /\ processedCount = Len(sink)
    /\ Len(statsLog) = Len(sink) \div StatsEvery
    /\ \A e \in errorLog : EmitCount(e.src) = 0
    /\ \A i \in 1..Len(sink) : JsonParses(SinkSource(i))
    /\ (joinOffset[1] >= 0 /\ inflight = {})
          => position[1] - joinOffset[1] = Len(sink) + Cardinality(errorLog)

C28_Witness ==
    /\ position[1] = StatsEvery + 1 /\ processedCount = StatsEvery
    /\ Len(statsLog) = 1 /\ statsLog[1].totalProcessed = Len(sink)
    /\ sink[StatsEvery].src = <<1, StatsEvery + 1>>
    /\ \E e \in errorLog : e.reason = "parse"

\* C25 (as claimed): in every snapshot the rate is finite and equals
\* totalProcessed / (uptime / 60), to two decimals, for the whole-second
\* uptime of the snapshot.
C25_RateFromWholeSeconds ==
    \A k \in 1..Len(statsLog) :
        /\ statsLog[k].averageProcessingRate # Infinity
        /\ statsLog[k].uptime > 0
              => statsLog[k].averageProcessingRate
                     = Round(statsLog[k].totalProcessed * 60 * 100, statsLog[k].uptime)

\* C25 (amended): in every snapshot uptime is the elapsed time since the
\* processor was created rounded to the nearest second, and the rate is
\* totalProcessed per minute of the elapsed milliseconds, not of the rounded
\* uptime, to the nearest hundredth; it is finite exactly when the elapsed
\* time is not 0 ms, so also when uptime is 0 seconds with time elapsed.
C25_RateFromMilliseconds ==
    \A k \in 1..Len(statsLog) :
        LET elapsed == statsLog[k].timestamp * TickMs - StartTime
            rate == statsLog[k].averageProcessingRate
        IN  /\ 2 * (1000 * statsLog[k].uptime - elapsed) \in (0 - 1000 + 1)..1000
            /\ rate = Infinity <=> elapsed = 0
            /\ elapsed > 0
                  => 2 * (rate * elapsed - statsLog[k].totalProcessed * 6000000)
                         \in (0 - elapsed + 1)..elapsed

C25_Witness ==
    /\ Len(statsLog) = 2
    /\ statsLog[1].uptime = 1 /\ statsLog[1].averageProcessingRate = 120000
    /\ statsLog[2].averageProcessingRate = Infinity /\ statsLog[2].uptime = 0

(***************************************************************************)
(* Properties of the API: statements and publishes.                        *)
(***************************************************************************)
\* the publish attempts of request r: the (operation, table) of the
\* ChangeRecord each call of producer.send was given
Attempts(r) ==
    IF req[r].send = "none" THEN <<>>
    ELSE <<<<JsonParse(req[r].value).operation, JsonParse(req[r].value).table>>>>

\* number of publish attempts of request r that describe statement w
Describing(r, w) == Cardinality({a \in 1..Len(Attempts(r)) : Attempts(r)[a] = w})

\* C13 (as claimed): when a write handler is done, each INSERT or UPDATE it
\* executed has exactly one publish attempt that describes it.
C13_EveryMutationPublishedOnce ==
    \A r \in Reqs :
        req[r].pc = "done"
            => \A k \in 1..Len(req[r].writes) : Describing(r, req[r].writes[k]) = 1

\* the statements a handler executes before it calls logDatabaseChange
StatementsBeforePublish(kind) == IF kind = "register" THEN 1 ELSE 2

\* C15: a request that has called producer.send has executed all its
\* statements, among them the one its ChangeRecord describes; a request
\* answered with an error status has called producer.send not at all; and
\* every record on the topic was sent by a request whose statements had
\* succeeded.
C15_PublishAfterWrite ==
    /\ \A r \in Reqs :
          /\ req[r].send # "none"
                => /\ Len(req[r].writes) = StatementsBeforePublish(req[r].kind)
                   /\ \E k \in 1..Len(req[r].writes) : req[r].writes[k] = Attempts(r)[1]
          /\ req[r].status \in {400, 401, 403, 500} => req[r].send = "none"
          /\ (req[r].kind = "register" /\ req[r].send # "none")
                => \E i \in 1..Len(users) :
                       JsonParse(req[r].value).data[1] = <<"id", i>>
    /\ \A p \in Partitions : \A i \in 1..Len(topic[p]) :
          \E r \in Reqs : /\ req[r].send = "acked" /\ req[r].value = topic[p][i]
                           /\ Len(req[r].writes) = StatementsBeforePublish(req[r].kind)

C15_Witness ==
    \E r, q \in Reqs :
        /\ req[r].kind = "login" /\ req[r].status = 500
        /\ req[r].writes = <<<<"UPDATE", "users">>>> /\ req[r].send = "none"
        /\ req[q].kind = "login" /\ req[q].send = "acked"
        /\ \E p \in Partitions : Len(topic[p]) = 1

\* C18: the ChangeRecord a handler sends carries the operation, table, data
\* and userId the handler passed to logDatabaseChange (userId null where
\* register passes none) and the time of the call as timestamp; its
\* operation is INSERT, UPDATE or DELETE; it is sent to 'database-changes',
\* the topic the consumer subscribes to, so an acknowledged record is on
\* that topic.
C18_ChangeRecordAsPassed ==
    \A r \in Reqs :
        req[r].send # "none"
            => LET changeLog == JsonParse(req[r].value) IN
               /\ IsJsonObject(req[r].value)
               /\ changeLog.operation \in {"INSERT", "UPDATE", "DELETE"}
               /\ changeLog.timestamp = req[r].t
               /\ req[r].topic = "database-changes" /\ req[r].topic = ConsumerTopic
               /\ req[r].send = "acked"
                     => \E p \in Partitions : \E i \in 1..Len(topic[p]) :
                            topic[p][i] = req[r].value
               /\ req[r].kind = "register"
                     => /\ changeLog.operation = "INSERT" /\ changeLog.table = "users"
                        /\ changeLog.userId = 0
                        /\ \E i \in 1..Len(users) :
                               changeLog.data = <<<<"id", i>>,
                                                  <<"username", users[i].username>>,
                                                  <<"email", users[i].email>>>>
               /\ req[r].kind = "login"
                     => /\ changeLog.operation = "INSERT"
                        /\ changeLog.table = "user_activity"
                        /\ changeLog.userId = req[r].uid
                        /\ changeLog.data = ActivityData(req[r].t, req[r].uid, "LOGIN")
               /\ req[r].kind = "logout"
                     => /\ changeLog.operation = "UPDATE" /\ changeLog.table = "users"
                        /\ changeLog.userId = req[r].uid
                        /\ changeLog.data = <<<<"id", req[r].uid>>, <<"token", "null">>>>

C18_Witness ==
    \E r, q \in Reqs :
        /\ req[r].kind = "login" /\ req[r].send = "acked"
        /\ req[q].kind = "logout" /\ req[q].send = "acked" /\ req[q].uid = 1
        /\ \E p \in Partitions : \E i \in 1..Len(topic[p]) :
               /\ topic[p][i] = req[q].value
               /\ JsonParse(topic[p][i]).operation = "UPDATE"

\* number of records on the topic that equal value
OnTopic(value) ==
    LET RECURSIVE Count(_)
        Count(P) == IF P = {} THEN 0
                    ELSE LET p == CHOOSE q \in P : TRUE
                         IN Cardinality({i \in 1..Len(topic[p]) : topic[p][i] = value})
                              + Count(P \ {p})
    IN Count(Partitions)

\* C21: with several requests in flight, the step in which the send of one
\* request settles leaves every other request as it is (its record, its
\* pending send, its response); an acknowledged send adds exactly one
\* record, that request's own, behind the records already on the topic, and
\* a rejected send adds none.  So the topic holds each payload as often as
\* there are acknowledged requests that sent it.
C21_PublishesInterleaveSafely ==
    /\ [](\A r \in Reqs :
              req[r].send # "none"
                  => OnTopic(req[r].value)
                         = Cardinality({q \in Reqs : /\ req[q].send = "acked"
                                                     /\ req[q].value = req[r].value}))
    /\ [][\A r \in Reqs :
            (req[r].send = "pending" /\ req'[r].send # "pending")
                => /\ \A q \in Reqs \ {r} : req'[q] = req[q]
                   /\ req'[r].value = req[r].value
                   /\ req'[r].status = SuccessStatus(req[r].kind)
                   /\ \A p \in Partitions :
                         SubSeq(topic'[p], 1, Len(topic[p])) = topic[p]
                   /\ req'[r].send = "rejected" => topic' = topic
                   /\ req'[r].send = "acked"
                         => \E p \in Partitions :
                               /\ topic'[p] = Append(topic[p], req[r].value)
                               /\ \A o \in Partitions \ {p} : topic'[o] = topic[o]]_vars

C21_Witness ==
    /\ req[1].send = "pending" /\ req[1].status = 0
    /\ req[2].send = "acked" /\ req[2].status = 200
    /\ req[1].value # req[2].value
    /\ OnTopic(req[2].value) = 1 /\ OnTopic(req[1].value) = 0

\* a handler has answered request r with status code and has executed no
\* statement, called producer.send not at all and changed no table, and
\* nothing was appended to the topic
AnsweredWithoutEffect(r, code) ==
    /\ req'[r].pc = "done" /\ req'[r].status = code
    /\ req'[r].writes = <<>> /\ req'[r].send = "none"
    /\ users' = users /\ activity' = activity /\ topic' = topic

\* C26: a register request that lacks username, email or password is
\* answered 400 without a statement, a new row or a publish; one whose
\* username or email exists is answered 400 by the failed INSERT, without a
\* new row or a publish; a row is added and producer.send is called only for
\* a complete request with a new username and email whose INSERT succeeds,
\* and 201 is answered only after that send has been settled.
C26_RegisterValidatesFirst ==
    [][\A r \in Reqs :
          /\ (req[r].pc = "idle" /\ req'[r].kind = "register")
                => \A username \in RegisterUsernames, email \in RegisterEmails,
                      password \in RegisterPasswords :
                      LET lacking == username = "" \/ email = "" \/ password = ""
                          exists == \E i \in 1..Len(users) :
                                       \/ users[i].username = username
                                       \/ users[i].email = email
                          \* the step is this request handled by register
                          HandledByRegister(now, dbOk) ==
                              register(r, username, email, password, now, dbOk)
                      IN  /\ lacking
                                => \/ AnsweredWithoutEffect(r, 400)
                                   \/ ~\E now \in Times, dbOk \in BOOLEAN : HandledByRegister(now, dbOk)
                          /\ (~lacking /\ exists)
                                => \/ AnsweredWithoutEffect(r, 400)
                                   \/ ~\E now \in Times : HandledByRegister(now, TRUE)
                          /\ (users' # users \/ req'[r].send # "none")
                                => \A now \in Times, dbOk \in BOOLEAN :
                                      \/ /\ ~lacking /\ ~exists /\ dbOk
                                         /\ users' = Append(users,
                                                         UserRow(username, email, password))
                                         /\ req'[r].writes = <<<<"INSERT", "users">>>>
                                         /\ req'[r].send = "pending"
                                         /\ req'[r].pc # "done"
                                      \/ ~HandledByRegister(now, dbOk)
          /\ (req'[r].kind = "register" /\ req'[r].status = 201 /\ req[r].status # 201)
                => /\ req[r].send = "pending"
                   /\ req[r].writes = <<<<"INSERT", "users">>>>
                   /\ users' = users
      ]_vars

C26_Witness ==
    \E r, q \in Reqs :
        /\ req[r].kind = "register" /\ req[r].status = 201
        /\ req[q].kind = "register" /\ req[q].status = 400 /\ req[q].writes = <<>>
        /\ r < q
        /\ Len(users) = 2 /\ users[2].username = "bob"
        /\ \E p \in Partitions : Len(topic[p]) = 1

\* C27: a login request that lacks username or password is answered 400,
\* one that names no user or gives a wrong password 401, and in both cases
\* no token is issued, no row of users (so no stored token) changes, no
\* user_activity row is inserted and nothing is published; a token is
\* issued only for a complete request with the password of the user it
\* names; and a request that has been answered does nothing more.
C27_FailedLoginChangesNothing ==
    [][\A r \in Reqs :
          /\ (req[r].pc = "idle" /\ req'[r].kind = "login")
                => \A username \in LoginUsernames, password \in LoginPasswords :
                      LET lacking == username = "" \/ password = ""
                          known == \E i \in 1..Len(users) :
                                      /\ users[i].username = username
                                            \/ users[i].email = username
                                      /\ users[i].password = Hash(password)
                          HandledByLogin(now, dbOk) ==
                              login(r, username, password, now, dbOk)
                          Failed(code) ==
                              /\ AnsweredWithoutEffect(r, code)
                              /\ issued' = issued /\ req'[r].token = NoToken
                      IN  /\ lacking
                                => \/ Failed(400)
                                   \/ ~\E now \in Times, dbOk \in BOOLEAN : HandledByLogin(now, dbOk)
                          /\ (~lacking /\ ~known)
                                => \/ Failed(401)
                                   \/ ~\E now \in Times : HandledByLogin(now, TRUE)
                          /\ (issued' # issued \/ req'[r].pc # "done")
                                => \A now \in Times, dbOk \in BOOLEAN :
                                      \/ ~lacking /\ known /\ dbOk
                                      \/ ~HandledByLogin(now, dbOk)
          /\ req[r].pc = "done" => req'[r] = req[r]
      ]_vars

C27_Witness ==
    \E r, q \in Reqs :
        /\ r < q
        /\ req[r].kind = "login" /\ req[r].status = 200
        /\ req[q].kind = "login" /\ req[q].status = 401
        /\ users[1].token = req[r].token /\ req[r].token # NoToken
        /\ Len(activity) = 1
        /\ \E p \in Partitions : Len(topic[p]) = 1

(***************************************************************************)
(* Properties of the sessions.                                             *)
(***************************************************************************)
\* the token is one that may pass: its signature verifies and it is the
\* token stored in the row of its user
Accepts(token) == token # NoToken /\ Verifies(token) /\ Stored(token)

\* request r takes the step of its token UPDATE
RunsUpdate(r, kind) ==
    /\ req[r].kind = kind /\ req[r].pc = "update" /\ req'[r].pc = "insert"

\* request r arrives at a protected endpoint with a token
ArrivesWithToken(r) ==
    /\ req[r].pc = "idle" /\ req'[r].kind \in {"logout", "profile"}
    /\ req'[r].token # NoToken

\* request r was answered by authenticateToken and nothing else happened
RejectedUntouched(r, code) ==
    /\ req'[r].status = code /\ req'[r].pc = "done"
    /\ req'[r].uid = 0 /\ req'[r].writes = <<>> /\ req'[r].send = "none"
    /\ users' = users /\ activity' = activity /\ topic' = topic

\* C23: the UPDATE of a logout leaves the user without stored token, so the
\* token the logout came with is not accepted any more; a token that is
\* not accepted becomes accepted only by the token UPDATE of a login that
\* issued it; and a request that arrives at /api/logout or /api/profile with
\* a token that is not accepted is answered 403 without its handler running.
C23_TokenDeadAfterLogout ==
    [][/\ \A r \in AuthReqs :
            RunsUpdate(r, "logout")
                => /\ users'[req[r].uid].token = NoToken
                   /\ users'[req[r].token[1]].token # req[r].token
       /\ \A token \in issued :
            (~Accepts(token) /\ users'[token[1]].token = token)
                => \E r \in AuthReqs : RunsUpdate(r, "login") /\ req[r].token = token
       /\ \A r \in AuthReqs :
            (ArrivesWithToken(r) /\ ~Accepts(req'[r].token))
                => RejectedUntouched(r, 403)]_vars

C23_Witness ==
    /\ req[1].kind = "logout" /\ req[1].status = 200
    /\ req[2].kind = "profile" /\ req[2].status = 403
    /\ req[2].token = req[1].token /\ req[2].token \in issued
    /\ users[1].token = NoToken

\* C24: a request to /api/logout or /api/profile without token is answered
\* 401; one whose token does not verify or is not the stored token of its
\* user is answered 403; in both cases nothing is written and nothing is
\* published; and the handler runs only for a token that verifies and is
\* the stored one.
C24_ValidatedBeforeHandler ==
    /\ [][\A r \in AuthReqs :
            (req[r].pc = "idle" /\ req'[r].kind \in {"logout", "profile"})
                => /\ req'[r].token = NoToken => RejectedUntouched(r, 401)
                   /\ (req'[r].token # NoToken /\ ~Accepts(req'[r].token))
                         => RejectedUntouched(r, 403)
                   /\ req'[r].uid # 0 => Accepts(req'[r].token)
                   /\ req'[r].uid = 0 => /\ req'[r].status \in {401, 403}
                                         /\ RejectedUntouched(r, req'[r].status)]_vars
    /\ [](\A r \in AuthReqs :
              (req[r].kind \in {"logout", "profile"} /\ req[r].status \in {401, 403})
                  => /\ req[r].writes = <<>> /\ req[r].send = "none" /\ req[r].uid = 0
                     /\ req[r].status = 401 <=> req[r].token = NoToken)

C24_Witness ==
    /\ req[1].kind = "profile" /\ req[1].status = 401 /\ req[1].token = NoToken
    /\ req[2].kind = "logout" /\ req[2].status = 403 /\ req[2].token = BadToken
    /\ users[1].token = Sign(1, 0) /\ Len(activity) = 1

\* the token UPDATE of login request r has run
TokenUpdated(r) == req[r].kind = "login" /\ req[r].writes # <<>>

\* C29 (as claimed): once the token UPDATE of a later login of a user has
\* run, the token issued by an earlier login of that user is rejected.
C29_EarlierTokenRejected ==
    \A r, q \in AuthReqs :
        (r < q /\ req[r].kind = "login" /\ req[r].token # NoToken
               /\ TokenUpdated(q) /\ req[q].uid = req[r].uid)
            => authenticateToken(req[r].token, TRUE) = 403

\* C29 (amended): at any moment authenticateToken accepts at most one token
\* per user, the one stored in the user's row; the token UPDATE of a login
\* stores the token of that login, and in that step every other token
\* issued to the user, by an earlier or by a later login, starts or goes on
\* being rejected with 403.  Two logins of a user in the same second issue
\* the same token, and the token of an earlier login is accepted again when
\* its own UPDATE runs after the UPDATE of the later login.
C29_OnlyStoredTokenAccepted ==
    /\ [](\A token \in issued \cup {BadToken} :
              authenticateToken(token, TRUE) = 0
                  => /\ token = users[token[1]].token
                     /\ \A other \in issued :
                           (other[1] = token[1] /\ other # token)
                               => authenticateToken(other, TRUE) = 403)
    /\ [][\A r \in AuthReqs :
            RunsUpdate(r, "login")
                => /\ users'[req[r].uid].token = req[r].token
                   /\ authenticateToken(req[r].token, TRUE)' = 0
                   /\ \A other \in issued :
                         (other[1] = req[r].uid /\ other # req[r].token)
                             => authenticateToken(other, TRUE)' = 403]_vars

C29_Witness ==
    /\ req[1].kind = "login" /\ req[1].status = 200 /\ req[1].token = Sign(1, 1)
    /\ users[1].token = Sign(1, 1)
    /\ req[2].kind = "profile" /\ req[2].status = 403 /\ req[2].token = Sign(1, 0)

\* C30: two logins of a user that issued different tokens and whose
\* statements all succeeded are both answered 200; each token UPDATE stores
\* the token of its login, so that the UPDATE that ran last decides the
\* stored token, whichever login arrived first; and when both have finished
\* and no other request has written, the stored token is one of the two and
\* authenticateToken accepts exactly that one and rejects the other.
C30_OverlappingLogins ==
    /\ [](\A r, q \in AuthReqs :
              (/\ r # q /\ TokenUpdated(r) /\ TokenUpdated(q)
               /\ req[r].pc = "done" /\ req[q].pc = "done"
               /\ req[r].uid = req[q].uid /\ req[r].token # req[q].token
               /\ \A s \in AuthReqs \ {r, q} : req[s].writes = <<>>)
                  => /\ req[r].status = 200 /\ req[q].status = 200
                     /\ users[req[r].uid].token \in {req[r].token, req[q].token}
                     /\ (authenticateToken(req[r].token, TRUE) = 0)
                            # (authenticateToken(req[q].token, TRUE) = 0)
                     /\ {authenticateToken(req[r].token, TRUE),
                         authenticateToken(req[q].token, TRUE)} = {0, 403})
    /\ [][\A r, q \in AuthReqs :
            (/\ RunsUpdate(r, "login") /\ TokenUpdated(q)
             /\ req[q].uid = req[r].uid /\ req[q].token # req[r].token)
                => /\ users'[req[r].uid].token = req[r].token
                   /\ authenticateToken(req[r].token, TRUE)' = 0
                   /\ authenticateToken(req[q].token, TRUE)' = 403]_vars

C30_Witness ==
    /\ req[1].kind = "login" /\ req[1].status = 200
    /\ req[2].kind = "login" /\ req[2].status = 200
    /\ req[1].token # req[2].token
    /\ users[1].token = req[1].token
    /\ authenticateToken(req[1].token, TRUE) = 0
    /\ authenticateToken(req[2].token, TRUE) = 403
    /\ Len(activity) = 3 /\ Len(topic[1]) = 3

\* the token in the body of the response to request q: only the
\* 'Login successful' body carries one
ResponseToken(q) ==
    IF q.kind = "login" /\ q.pc = "done" /\ q.status = 200 THEN q.token ELSE NoToken

\* C31: login executes the token UPDATE, then the user_activity INSERT,
\* then the publish; the UPDATE stores the new token without touching
\* user_activity or the topic; when the INSERT fails the request is answered
\* 500, the row of the user keeps the token, nothing is published, and the
\* response carries no token: a token is in a response only after both
\* statements and the publish attempt.
C31_TokenStoredBeforeActivity ==
    /\ [](\A r \in Reqs :
              req[r].kind = "login"
                  => /\ req[r].writes \in {<<>>, <<<<"UPDATE", "users">>>>,
                                          <<<<"UPDATE", "users">>,
                                            <<"INSERT", "user_activity">>>>}
                     /\ req[r].send # "none" => Len(req[r].writes) = 2
                     /\ req[r].status = 500
                           => req[r].send = "none" /\ ResponseToken(req[r]) = NoToken
                     /\ ResponseToken(req[r]) # NoToken
                           => /\ Len(req[r].writes) = 2
                              /\ req[r].send \in {"acked", "rejected"})
    /\ [][\A r \in Reqs :
            /\ RunsUpdate(r, "login")
                  => /\ users'[req[r].uid].token = req[r].token
                     /\ activity' = activity /\ topic' = topic
                     /\ req'[r].send = "none"
            /\ (req[r].kind = "login" /\ req[r].pc = "insert" /\ req'[r].pc = "done")
                  => /\ req'[r].status = 500
                     /\ users' = users /\ activity' = activity /\ topic' = topic
                     /\ req'[r].send = "none" /\ req'[r].token = req[r].token
                     /\ ResponseToken(req'[r]) = NoToken]_vars

C31_Witness ==
    \E r \in Reqs :
        /\ req[r].kind = "login" /\ req[r].status = 500
        /\ req[r].writes = <<<<"UPDATE", "users">>>>
        /\ users[req[r].uid].token = req[r].token /\ req[r].token # NoToken
        /\ authenticateToken(req[r].token, TRUE) = 0
        /\ activity = <<>>
        /\ \A p \in Partitions : topic[p] = <<>>

\* the user_activity INSERT of logout request r has failed
LogoutInsertFailed(r) ==
    /\ req[r].kind = "logout" /\ req[r].status = 500
    /\ req[r].writes = <<<<"UPDATE", "users">>>>

\* C32: logout executes the UPDATE that sets the token to NULL, then the
\* user_activity INSERT, then the publish; the UPDATE touches neither
\* user_activity nor the topic; when the INSERT fails the request is
\* answered 500, no row changes (the token stays NULL), nothing is published;
\* and a logout that arrives afterwards with the same token, while no login
\* has stored it again, is answered 403 without its handler running.
C32_LogoutEndsSessionFirst ==
    /\ [](\A r \in AuthReqs :
              req[r].kind = "logout"
                  => /\ req[r].writes \in {<<>>, <<<<"UPDATE", "users">>>>,
                                          <<<<"UPDATE", "users">>,
                                            <<"INSERT", "user_activity">>>>}
                     /\ req[r].send # "none" => Len(req[r].writes) = 2
                     /\ req[r].status = 500 => req[r].send = "none")
    /\ [][\A r \in AuthReqs :
            /\ RunsUpdate(r, "logout")
                  => /\ users'[req[r].uid].token = NoToken
                     /\ activity' = activity /\ topic' = topic
                     /\ req'[r].send = "none"
            /\ (req[r].kind = "logout" /\ req[r].pc = "insert" /\ req'[r].pc = "done")
                  => /\ req'[r].status = 500
                     /\ users' = users /\ activity' = activity /\ topic' = topic
                     /\ req'[r].send = "none"
            /\ \A q \in AuthReqs :
                  (/\ LogoutInsertFailed(r)
                   /\ req[q].pc = "idle" /\ req'[q].kind = "logout"
                   /\ req'[q].token = req[r].token
                   /\ users[req[r].uid].token = NoToken)
                      => RejectedUntouched(q, 403)]_vars

C32_Witness ==
    /\ LogoutInsertFailed(1) /\ req[1].token = Sign(1, 0)
    /\ req[2].kind = "logout" /\ req[2].status = 403 /\ req[2].token = req[1].token
    /\ users[1].token = NoToken
    /\ Len(activity) = 1 /\ Len(topic[1]) = 1

\* the keys of the data of a ChangeRecord
DataKeys(data) == [k \in 1..Len(data) |-> data[k][1]]

\* the ChangeRecord the handler of request q publishes, from what is not
\* secret: the time of the call, the id, username and email of the row
\* the request is about
PublicRecord(q) ==
    IF q.kind = "register"
    THEN {ChangeLog(q.t, "INSERT", "users",
                    <<<<"id", i>>, <<"username", users[i].username>>,
                      <<"email", users[i].email>>>>, 0) : i \in 1..Len(users)}
    ELSE IF q.kind = "login"
    THEN {ChangeLog(q.t, "INSERT", "user_activity",
                    <<<<"timestamp", q.t>>, <<"userId", q.uid>>, <<"action", "LOGIN">>,
                      <<"ipAddress", "ip">>>>, q.uid)}
    ELSE {ChangeLog(q.t, "UPDATE", "users",
                    <<<<"id", q.uid>>, <<"token", "null">>>>, q.uid)}

\* C33: the ChangeRecord of a register has the data id, username, email,
\* that of a login the activity entry timestamp, userId, action, ipAddress,
\* that of a logout id and token: null; each is determined by the time and
\* by the public columns of the row, whatever the password and the token
\* are; no value of the data is a password; every record on the topic is
\* such a record; and the line the consumer writes for it has the same
\* data and, besides, only fields of the record and of the consumer.
C33_NoSecretPublished ==
    /\ \A r \in Reqs :
          req[r].send # "none"
              => LET changeLog == JsonParse(req[r].value) IN
                 /\ changeLog \in PublicRecord(req[r])
                 /\ DataKeys(changeLog.data)
                        = IF req[r].kind = "register" THEN <<"id", "username", "email">>
                          ELSE IF req[r].kind = "login"
                          THEN <<"timestamp", "userId", "action", "ipAddress">>
                          ELSE <<"id", "token">>
                 /\ \A k \in 1..Len(changeLog.data) :
                       changeLog.data[k][1] \in {"username", "email", "action",
                                                 "ipAddress", "token"}
                           => changeLog.data[k][2] \notin SecretPasswords \cup {"admin123"}
                 /\ \A now \in Times :
                       LET processedChange == ProcessedChange(now, changeLog) IN
                       /\ processedChange.data = changeLog.data
                       /\ DOMAIN processedChange
                              = {"timestamp", "originalTimestamp", "operation", "table",
                                 "data", "userId", "processedBy", "processingLatency"}
                       /\ processedChange.userId = changeLog.userId
                       /\ processedChange.operation = changeLog.operation
                       /\ processedChange.table = changeLog.table
    /\ \A p \in Partitions : \A i \in 1..Len(topic[p]) :
          \E r \in Reqs : req[r].send = "acked" /\ req[r].value = topic[p][i]

C33_Witness ==
    /\ req[1].kind = "register" /\ req[1].send = "acked"
    /\ users[2].password = Hash("pw2")
    /\ req[2].kind = "login" /\ req[2].send = "acked" /\ req[2].uid = 2
    /\ users[2].token = req[2].token /\ req[2].token # NoToken
    /\ Len(topic[1]) = 2
    /\ JsonParse(topic[1][1]).data
           = <<<<"id", 2>>, <<"username", "bob">>, <<"email", "bob@x">>>>

(***************************************************************************)
(* Properties of the life of the API process.                              *)
(***************************************************************************)
\* C22 (as claimed): producer.connect is called once, before the server
\* listens, and when the SIGINT handler ends the process,
\* producer.disconnect has been called and the database pool is closed.
C22_DisconnectAndCloseBeforeExit ==
    /\ producerCalls.connect <= 1
    /\ apiPc = "listening" => producerCalls.connect = 1
    /\ (apiExited /\ apiExitVia = "shutdown")
          => /\ producerCalls.disconnect >= 1
             /\ dbPool \in {"none", "closed"}

\* no record is on the topic
TopicEmpty == \A p \in Partitions : topic[p] = <<>>

\* C34: producer.connect is called at most once, and not at all before
\* initializeDatabase has returned; when it fails the API goes on to
\* listen and the process stays alive; from then on the producer is never
\* connected, nothing reaches the topic, and a register request whose INSERT
\* succeeded has its send rejected and is answered 201 all the same.
C34_ConnectFailureTolerated ==
    /\ [](/\ producerCalls.connect <= 1
          /\ apiPc \in {"awaitKafka", "listening"} => producerCalls.connect = 1
          /\ apiPc \in {"start", "awaitDbConnect", "awaitTables", "awaitDefaultUser",
                         "failed"}
                => producerCalls.connect = 0 /\ producer \notin {"connected", "failed"}
          /\ producer = "failed" => apiPc = "listening")
    /\ [][/\ (producer # "failed" /\ producer' = "failed")
                => /\ apiPc = "awaitKafka" /\ apiPc' = "listening"
                   /\ ~apiExited' /\ producerCalls' = producerCalls
          /\ producer' = "connected" => producer \in {"connecting", "connected"}
          /\ (producer = "failed" /\ req[1].pc = "send" /\ req'[1].pc = "done")
                => /\ req'[1].send = "rejected" /\ req'[1].status = 201
                   /\ users' = users /\ topic' = topic /\ ~apiExited'
                   /\ apiPc' = "listening"]_vars
    /\ [](producer = "failed"
             => [](/\ producer # "connected" /\ producerCalls.connect = 1
                   /\ TopicEmpty
                   /\ req[1].send # "acked"))

C34_Witness ==
    /\ producer = "failed" /\ apiPc = "listening" /\ ~apiExited
    /\ producerCalls.connect = 1
    /\ req[1].kind = "register" /\ req[1].status = 201 /\ req[1].send = "rejected"
    /\ \E i \in 1..Len(users) : users[i].username = "bob"
    /\ TopicEmpty

\* C35: the server starts to listen in the step in which the connect
\* attempt of the producer ends, and then the database pool exists
\* (initializeDatabase has returned; a failed CREATE TABLE or default user
\* INSERT is logged and does not stop it); when connecting to the database
\* fails the process exits with code 1 and never listens; and a request is
\* handled, a row written or a record published only when the server has
\* listened with a pool.
C35_ListenAfterDatabase ==
    /\ [](/\ apiPc = "listening"
                => /\ dbPool # "none"
                   /\ producerCalls.connect = 1
                   /\ producer \notin {"idle", "connecting"}
          /\ apiExitVia = "startup"
                => /\ apiExited /\ apiExitCode = 1 /\ apiPc = "failed"
                   /\ dbPool = "none"
          /\ apiPc # "listening"
                => /\ req[1].pc = "idle" /\ activity = <<>> /\ TopicEmpty
                   /\ \A i \in 1..Len(users) : users[i].username = "admin"
          /\ dbPool = "none"
                => /\ req[1].pc = "idle" /\ users = <<>> /\ TopicEmpty
                   /\ apiPc # "listening")
    /\ [][/\ (apiPc # "listening" /\ apiPc' = "listening")
                => /\ apiPc = "awaitKafka" /\ dbPool \in {"connected", "ready", "closed"}
                   /\ producer' # "connecting"
          /\ (apiPc = "awaitDbConnect" /\ apiPc' = "failed")
                => apiExited' /\ apiExitCode' = 1 /\ dbPool' = "none"
          /\ apiPc = "failed" => apiPc' = "failed"
          /\ (req' # req \/ users' # users \/ topic' # topic)
                => \/ apiPc = "listening" /\ dbPool # "none"
                   \/ apiPc = "awaitDefaultUser" /\ req' = req /\ topic' = topic]_vars

C35_Witness ==
    /\ apiExited /\ apiExitVia = "startup" /\ apiExitCode = 1
    /\ apiPc = "failed" /\ dbPool = "none"
    /\ producerCalls.connect = 0
    /\ req[1].pc = "idle" /\ users = <<>> /\ TopicEmpty

====
